---- MODULE Spec2Model ----
(***************************************************************************)
(* Storage, configuration and history managers of the QR-code extension.   *)
(*                                                                         *)
(* One execution context (the popup) holds the singletons storageManager,  *)
(* configManager, historyManager and errorHandler.  chrome.storage.local   *)
(* is the persistent store; it is shared with the options page, which      *)
(* writes the settings record directly.                                    *)
(*                                                                         *)
(* Every manager operation is one action: callers await each operation,    *)
(* and chrome.storage serves requests in the order they were issued.  The  *)
(* exception is saveSettings, modelled in two steps (call, write done) so  *)
(* that the state while the write is in flight is visible.                 *)
(*                                                                         *)
(* A settings object is a function from the keys it has to their values;   *)
(* an absent record (null / undefined / {}) is the empty function.         *)
(* Colours are sequences of one-character strings.                         *)
(***************************************************************************)
EXTENDS Integers, Sequences, FiniteSets, TLC

VARIABLES
    store,            \* chrome.storage.local: qrSettings, qrHistory
    cache,            \* StorageManager.cache: key -> [has, val]
    currentSettings,  \* ConfigManager.currentSettings
    initialised,      \* ConfigManager.init has completed
    pending,          \* saveSettings whose storage write is in flight
    hm,               \* HistoryManager: searchQuery, filterType, sortBy, sortOrder
    now,              \* Date.now()
    nextId,           \* serial standing for the random suffix of generateId
    op,               \* the last completed manager operation and its outcome
    pre,              \* state at the time that operation was called
    prevOp,           \* the operation completed before op
    emitted,          \* notifications delivered by the operation called last
    added,            \* entries created by add / saveToHistory calls that
                      \* returned normally, newest first
    onlyAdds,         \* no history operation other than these was called
    left,             \* number of manager operations still to be called
    qr,               \* QRRecognizer fields (content script)
    page,             \* the page of the content script: cursor, listeners,
                      \* library globals, script elements being loaded
    captures,         \* recognizeFromRect calls in flight, and their count
    ev,               \* the last event the recognizer handled
    shown,            \* notifications shown while handling that event
    router,           \* BackgroundService: messageHandlers, commandHandlers
    reply,            \* the last message or command the router dispatched
    eh,               \* ErrorHandler of the background context: errorHistory,
                      \* errorCallbacks, number of errors handled
    popup,            \* PopupController: debounceTimers, the time of its event
                      \* loop, the last input event and handler run of a field
    write,            \* the StorageManager.set call of the popup in flight
    perf,             \* StorageManager performance logging: the call that
                      \* started it, the logPerformance calls in progress,
                      \* the writes issued
    ins               \* history insertions in progress: the array objects
                      \* they hold, the one the cache holds, the storage
                      \* requests not yet served

vars == <<store, cache, currentSettings, initialised, pending, hm, now,
          nextId, op, pre, prevOp, emitted, added, onlyAdds, left,
          qr, page, captures, ev, shown, router, reply, eh, popup, write,
          perf, ins>>

-----------------------------------------------------------------------------
(* Bounds *)

MaxOps == 4

MaxHistoryOps == 2

MaxPageOps == 4

MaxRouterOps == 3

MaxBrowseOps == 3

MaxInputs == 3

MaxListOps == 3

MaxWrites == 6

MaxExpiries == 2

MaxInserts == 2

-----------------------------------------------------------------------------
(* Constants of the program *)

HISTORY_LIMIT == 100

QR_CORRECT_LEVELS == {"L", "M", "Q", "H"}

VALIDATION_ERROR == "VALIDATION_ERROR"

STORAGE_ERROR == "STORAGE_ERROR"

RUNTIME_ERROR == "RUNTIME_ERROR"

Black == <<"#", "0", "0", "0", "0", "0", "0">>

White == <<"#", "f", "f", "f", "f", "f", "f">>

DEFAULT_SETTINGS ==
    [size |-> 200, colorDark |-> Black, colorLight |-> White,
     correctLevel |-> "H"]

SettingsKeys == {"size", "colorDark", "colorLight", "correctLevel"}

-----------------------------------------------------------------------------
(* Errors: AppError(message, type, code, details); details.error is the    *)
(* error that was caught and wrapped, kept as its type and code.           *)

NoError == [type |-> "none", code |-> 0, causeType |-> "none", causeCode |-> 0]

AppError(type, code, cause) ==
    [type |-> type, code |-> code,
     causeType |-> cause.type, causeCode |-> cause.code]

\* chrome.runtime.lastError: not an AppError
LastError == [type |-> "lastError", code |-> 0, causeType |-> "none", causeCode |-> 0]

-----------------------------------------------------------------------------
(* ConfigManager: pure parts *)

EmptySettings == <<>>


\* /^#([A-Fa-f0-9]{6}|[A-Fa-f0-9]{3})$/i on a string
isValidColor(color) ==
    /\ Len(color) \in {7, 4}
    /\ color[1] = "#"
    /\ \A i \in 2..Len(color) :
           color[i] \in {"0", "1", "2", "3", "4", "5", "6", "7", "8", "9",
                         "a", "b", "c", "d", "e", "f",
                         "A", "B", "C", "D", "E", "F"}

\* the list of messages validateSettings collects
validationErrors(settings) ==
    (IF "size" \notin DOMAIN settings
        \/ settings["size"] < 100 \/ settings["size"] > 1000
     THEN {"Size must be between 100 and 1000"} ELSE {})
    \cup
    (IF "colorDark" \notin DOMAIN settings
        \/ ~isValidColor(settings["colorDark"])
     THEN {"Invalid colorDark value"} ELSE {})
    \cup
    (IF "colorLight" \notin DOMAIN settings
        \/ ~isValidColor(settings["colorLight"])
     THEN {"Invalid colorLight value"} ELSE {})
    \cup
    (IF "correctLevel" \notin DOMAIN settings
        \/ settings["correctLevel"] \notin QR_CORRECT_LEVELS
     THEN {"Invalid correctLevel value"} ELSE {})

\* TRUE when validateSettings returns, FALSE when it throws (code 4102)
validateSettings(settings) == validationErrors(settings) = {}

\* { ...a, ...b }
Spread(a, b) ==
    [k \in (DOMAIN a) \cup (DOMAIN b) |->
        IF k \in DOMAIN b THEN b[k] ELSE a[k]]

\* the merge with the defaults winning
mergeDefaultsOver(settings) == Spread(settings, DEFAULT_SETTINGS)

mergeWithDefaults(settings) == Spread(DEFAULT_SETTINGS, settings)

-----------------------------------------------------------------------------
(* StorageManager and chrome.storage.local *)


NoEntry == [has |-> FALSE, val |-> <<>>]

EmptyCache == [qrSettings |-> NoEntry, qrHistory |-> NoEntry]

\* what get(key, default) resolves to when it does not fail: the cached
\* value on a hit, else the stored value (the default when nothing is stored)
GetValue(c, st, key) == IF c[key].has THEN c[key].val ELSE st[key]

\* get caches the value it read
CacheAfterGet(c, st, key) ==
    [c EXCEPT ![key] = [has |-> TRUE, val |-> GetValue(c, st, key)]]

\* get fails only when it has to read the store and the read fails
GetFails(c, key, readOk) == ~c[key].has /\ ~readOk

\* set, when setWithRetry resolved: the store and the cache hold the value
StoreAfterSet(st, key, value) == [st EXCEPT ![key] = value]

CacheAfterSet(c, key, value) ==
    [c EXCEPT ![key] = [has |-> TRUE, val |-> value]]

\* set, when setWithRetry rejected: the retries waited 1000 + 2000 + 3000 ms,
\* longer than cacheTimeout, so every entry cached before the call has been
\* deleted by its timer
CacheAfterFailedSet(c) == EmptyCache

\* the errors set and get throw
SetError == AppError(STORAGE_ERROR, 2002, LastError)

GetError == AppError(STORAGE_ERROR, 2001, LastError)

-----------------------------------------------------------------------------
(* ErrorHandler *)

\* tryRecovery: a STORAGE_ERROR clears chrome.storage.local; cleared is
\* whether that clear went through (no lastError)
tryRecovery(st, error, cleared) ==
    IF error.type = STORAGE_ERROR /\ cleared
    THEN [qrSettings |-> EmptySettings, qrHistory |-> <<>>]
    ELSE st

-----------------------------------------------------------------------------
(* Bookkeeping of operations *)

None == [name |-> "none"]

NoOp ==
    [name |-> "none", arg |-> <<>>, ok |-> TRUE, err |-> NoError,
     result |-> <<>>]

Snapshot ==
    [store |-> store, cache |-> cache, currentSettings |-> currentSettings,
     initialised |-> initialised]

Done(name, arg, ok, err, result) ==
    [name |-> name, arg |-> arg, ok |-> ok, err |-> err, result |-> result]

Event(event, data) == [event |-> event, data |-> data]

\* an operation that completes in the step in which it is called
Completes(o, events) ==
    /\ left > 0
    /\ pending = None
    /\ left' = left - 1
    /\ pre' = Snapshot
    /\ prevOp' = op
    /\ op' = o
    /\ emitted' = events

HistoryUnchanged == UNCHANGED <<hm, now, nextId, added, onlyAdds>>

ConfigUnchanged == UNCHANGED <<currentSettings, initialised, pending>>

\* the content script and the background service are other contexts
ContextsUnchanged ==
    UNCHANGED <<qr, page, captures, ev, shown, router, reply, eh, popup,
                write, perf, ins>>

\* an operation that threw: the error went through errorHandler.handleError,
\* whose recovery acts on handled, an error of the chain
Throws(name, arg, error, handled) ==
    /\ \E cleared \in BOOLEAN : store' = tryRecovery(store, handled, cleared)
    /\ Completes(Done(name, arg, FALSE, error, <<>>), <<>>)

\* an operation that returned after storageManager.set(key, value) resolved
Returns(name, arg, key, value, result, events) ==
    /\ store' = StoreAfterSet(store, key, value)
    /\ cache' = CacheAfterSet(cache, key, value)
    /\ Completes(Done(name, arg, TRUE, NoError, result), events)

-----------------------------------------------------------------------------
(* HistoryManager: pure parts *)

\* the characters of the content strings used here
Chars(content) ==
    CASE content = "https://example.com" -> <<"h", "t", "t", "p", "s", ":", "/", "/", "e", "x", "a", "m", "p", "l", "e", ".", "c", "o", "m">>
      [] content = "a@b.com" -> <<"a", "@", "b", ".", "c", "o", "m">>
      [] content = "+1 (555) 123-4567" -> <<"+", "1", " ", "(", "5", "5", "5", ")", " ", "1", "2", "3", "-", "4", "5", "6", "7">>
      [] content = "hello world" -> <<"h", "e", "l", "l", "o", " ", "w", "o", "r", "l", "d">>
      [] content = "note: x" -> <<"n", "o", "t", "e", ":", " ", "x">>
      [] content = "" -> <<>>
      [] content = "hello" -> <<"h", "e", "l", "l", "o">>
      [] content = "url" -> <<"u", "r", "l">>
      [] content = "text" -> <<"t", "e", "x", "t">>
      [] content = "email" -> <<"e", "m", "a", "i", "l">>
      [] content = "phone" -> <<"p", "h", "o", "n", "e">>
      [] content = "aaaaaaaaaaaaaaaaaaaaaaaaaaaaaaaaaaaaaaaaaaaaaaaaaa"
            -> [i \in 1..50 |-> "a"]
      [] content = "aaaaaaaaaaaaaaaaaaaaaaaaaaaaaaaaaaaaaaaaaaaaaaaaaaa"
            -> [i \in 1..51 |-> "a"]

Digits == {"0", "1", "2", "3", "4", "5", "6", "7", "8", "9"}

Letters ==
    {"a", "b", "c", "d", "e", "f", "g", "h", "i", "j", "k", "l", "m", "n",
     "o", "p", "q", "r", "s", "t", "u", "v", "w", "x", "y", "z"}


\* drop the slashes a special scheme is followed by
RECURSIVE SkipSlashes(_)
SkipSlashes(cs) ==
    IF cs /= <<>> /\ Head(cs) \in {"/", "\\"} THEN SkipSlashes(Tail(cs)) ELSE cs

\* new URL(content) does not throw: content starts with a scheme (a letter,
\* then letters, digits, "+", "-", "."), then ":"; a special scheme other
\* than file also needs a host after the slashes
isUrl(content) ==
    LET cs == Chars(content) IN
    \E i \in 2..Len(cs) :
        /\ cs[i] = ":"
        /\ cs[1] \in Letters
        /\ \A j \in 2..(i - 1) : cs[j] \in Letters \cup Digits \cup {"+", "-", "."}
        /\ LET scheme == SubSeq(cs, 1, i - 1)
               rest == SkipSlashes(SubSeq(cs, i + 1, Len(cs)))
           IN (scheme \in { <<"h", "t", "t", "p">>, <<"h", "t", "t", "p", "s">>,
                            <<"f", "t", "p">>, <<"w", "s">>,
                            <<"w", "s", "s">> }) =>
                  (rest /= <<>> /\ Head(rest) \notin {"?", "#", ":", "@"})

\* /^[^\s@]+@[^\s@]+\.[^\s@]+$/
isEmail(content) ==
    LET cs == Chars(content)
        Plain(a, b) == a <= b /\ \A j \in a..b : cs[j] \notin {" ", "@"}
    IN
    \E at \in 1..Len(cs), dot \in 1..Len(cs) :
        /\ cs[at] = "@" /\ cs[dot] = "."
        /\ dot > at + 1
        /\ Plain(1, at - 1)
        /\ Plain(at + 1, dot - 1)
        /\ Plain(dot + 1, Len(cs))

\* /^[\d\s\-\+\(\)]{10,}$/
isPhoneNumber(content) ==
    LET cs == Chars(content) IN
    /\ Len(cs) >= 10
    /\ \A j \in 1..Len(cs) : cs[j] \in Digits \cup {" ", "-", "+", "(", ")"}

detectContentType(content) ==
    IF isUrl(content) THEN "url"
    ELSE IF isEmail(content) THEN "email"
    ELSE IF isPhoneNumber(content) THEN "phone"
    ELSE "text"

\* a.content.localeCompare(b.content) < 0, for the content strings used here:
\* punctuation sorts before digits, digits before letters
LocaleRank(content) ==
    CASE content = "" -> 0
      [] content = "+1 (555) 123-4567" -> 1
      [] content = "a@b.com" -> 2
      [] content = "hello world" -> 3
      [] content = "https://example.com" -> 4
      [] content = "note: x" -> 5

\* comparator of filterAndSort: negative when a goes before b
compare(h, a, b) ==
    LET comparison ==
            IF h.sortBy = "timestamp" THEN a.timestamp - b.timestamp
            ELSE LocaleRank(a.content) - LocaleRank(b.content)
    IN IF h.sortOrder = "desc" THEN 0 - comparison ELSE comparison

\* Array.prototype.sort with that comparator: a stable sort.  An element's
\* place is the number of elements that go before it, plus one.
Sort(h, list) ==
    LET n == Len(list)
        Before(j, i) ==
            \/ compare(h, list[j], list[i]) < 0
            \/ compare(h, list[j], list[i]) = 0 /\ j < i
        place == [i \in 1..n |-> Cardinality({j \in 1..n : Before(j, i)}) + 1]
    IN [k \in 1..n |-> list[CHOOSE i \in 1..n : place[i] = k]]

\* the array left at its length
TruncateNever(list) == list

\* history.length = HISTORY_LIMIT when it is longer
Truncate(list) ==
    IF Len(list) > HISTORY_LIMIT THEN SubSeq(list, 1, HISTORY_LIMIT) ELSE list

\* history.unshift(...items), then the truncation
Unshift(items, list) == Truncate(items \o list)

\* history.findIndex(item => item.id === id), 1-based; 0 when there is none
findIndex(list, id) ==
    IF \E i \in 1..Len(list) : list[i].id = id
    THEN CHOOSE i \in 1..Len(list) :
            /\ list[i].id = id
            /\ \A j \in 1..(i - 1) : list[j].id /= id
    ELSE 0

\* history.splice(index, 1), index 1-based
Splice(list, index) ==
    SubSeq(list, 1, index - 1) \o SubSeq(list, index + 1, Len(list))

-----------------------------------------------------------------------------
(* Inputs *)


Short == <<"#", "1", "a", "F">>

ValidA ==
    [size |-> 300, colorDark |-> Short, colorLight |-> White,
     correctLevel |-> "M"]

ValidB ==
    [size |-> 1000, colorDark |-> Black, colorLight |-> Short,
     correctLevel |-> "L"]


-----------------------------------------------------------------------------
(* ConfigManager *)

\* init(): called by the constructor and not awaited.  Its storage read is
\* issued at construction, so it completes before any later storage request.
ConfigInit ==
    /\ ~initialised
    /\ \E readOk \in BOOLEAN, cleared \in BOOLEAN :
        IF GetFails(cache, "qrSettings", readOk)
        THEN \* get threw: init logs it and falls back to the defaults
             /\ currentSettings' = DEFAULT_SETTINGS
             /\ store' = tryRecovery(store, GetError, cleared)
             /\ cache' = cache
             /\ Completes(Done("init", <<>>, FALSE, GetError, <<>>), <<>>)
        ELSE LET settings == GetValue(cache, store, "qrSettings") IN
             /\ readOk /\ ~cleared
             /\ cache' = CacheAfterGet(cache, store, "qrSettings")
             /\ store' = store
             /\ IF validateSettings(settings)
                THEN /\ currentSettings' = settings
                     /\ Completes(Done("init", <<>>, TRUE, NoError, <<>>), <<>>)
                ELSE /\ currentSettings' = DEFAULT_SETTINGS
                     /\ Completes(Done("init", <<>>, FALSE,
                            AppError(VALIDATION_ERROR, 4102, NoError), <<>>),
                            <<>>)
    /\ initialised' = TRUE
    /\ pending' = pending
    /\ HistoryUnchanged
    /\ ContextsUnchanged

loadSettings ==
    /\ initialised
    /\ \E readOk \in BOOLEAN, cleared \in BOOLEAN :
        IF GetFails(cache, "qrSettings", readOk)
        THEN LET error == AppError(STORAGE_ERROR, 4001, GetError) IN
             /\ currentSettings' = currentSettings
             /\ store' = tryRecovery(store, error, cleared)
             /\ cache' = cache
             /\ Completes(Done("loadSettings", <<>>, FALSE, error, <<>>), <<>>)
        ELSE LET settings == GetValue(cache, store, "qrSettings")
                 merged == mergeWithDefaults(settings)
                 error == AppError(STORAGE_ERROR, 4001,
                              AppError(VALIDATION_ERROR, 4102, NoError))
             IN
             /\ readOk
             /\ cache' = CacheAfterGet(cache, store, "qrSettings")
             /\ currentSettings' = mergeWithDefaults(settings)
             /\ IF validateSettings(merged)
                THEN /\ ~cleared
                     /\ store' = store
                     /\ Completes(Done("loadSettings", <<>>, TRUE, NoError,
                            merged), <<Event("settingsLoaded", merged)>>)
                ELSE /\ store' = tryRecovery(store, error, cleared)
                     /\ Completes(Done("loadSettings", <<>>, FALSE, error,
                            <<>>), <<>>)
    /\ UNCHANGED <<initialised, pending>>
    /\ HistoryUnchanged
    /\ ContextsUnchanged

\* the spread the other way round
saveMergedUnder(current, newSettings) == Spread(newSettings, current)

\* what saveSettings persists: { ...this.currentSettings, ...newSettings }
saveMerged(current, newSettings) == Spread(current, newSettings)

\* the in-memory settings assigned before the write resolved
saveInFlightEager(current, merged) == merged

\* the settings saveSettings holds in memory while its write is in flight
saveInFlight(current, merged) == current

\* saveSettings up to its await: validation and merge, then the write is issued
saveSettingsCall(newSettings) ==
    /\ left > 0
    /\ pending = None
    /\ left' = left - 1
    /\ emitted' = <<>>
    /\ LET merged == saveMerged(currentSettings, newSettings)
           error == AppError(STORAGE_ERROR, 4002,
                        AppError(VALIDATION_ERROR, 4102, NoError))
       IN
       IF validateSettings(newSettings)
       THEN /\ initialised
            /\ pending' = [name |-> "saveSettings", arg |-> newSettings,
                           merged |-> merged, pre |-> Snapshot]
            /\ currentSettings' = saveInFlight(currentSettings, merged)
            /\ UNCHANGED <<store, op, prevOp, pre>>
       ELSE /\ \E cleared \in BOOLEAN :
                store' = tryRecovery(store, error, cleared)
            /\ pre' = Snapshot
            /\ prevOp' = op
            /\ op' = Done("saveSettings", newSettings, FALSE, error, <<>>)
            /\ UNCHANGED <<pending, currentSettings>>
    /\ UNCHANGED <<cache, initialised>>
    /\ HistoryUnchanged
    /\ ContextsUnchanged

saveSettings ==
    \E newSettings \in
            { ValidA, ValidB,
              [ValidA EXCEPT !.size = 50],
              [ValidA EXCEPT !.size = 1001],
              [ValidA EXCEPT !.colorDark = <<"r", "e", "d">>],
              [ValidA EXCEPT !.correctLevel = "X"] } :
        saveSettingsCall(newSettings)

\* setSetting(key, value)
setSetting ==
    \E kv \in { <<"size", 300>>, <<"correctLevel", "Q">>, <<"size", 50>> } :
        saveSettingsCall([k \in {kv[1]} |-> kv[2]])

\* saveSettings after its await: the write resolved or rejected
saveSettingsWritten ==
    /\ pending /= None
    /\ pending.name = "saveSettings"
    /\ \E writeOk \in BOOLEAN, cleared \in BOOLEAN :
        LET merged == pending.merged
            error == AppError(STORAGE_ERROR, 4002,
                         AppError(STORAGE_ERROR, 2007, SetError))
        IN
        IF writeOk
        THEN /\ ~cleared
             /\ store' = StoreAfterSet(store, "qrSettings", merged)
             /\ cache' = CacheAfterSet(cache, "qrSettings", merged)
             /\ currentSettings' = merged
             /\ op' = Done("saveSettings", pending.arg, TRUE, NoError, merged)
             /\ emitted' = emitted \o <<Event("settingsSaved", merged)>>
        ELSE /\ store' = tryRecovery(store, error, cleared)
             /\ cache' = CacheAfterFailedSet(cache)
             /\ currentSettings' = currentSettings
             /\ op' = Done("saveSettings", pending.arg, FALSE, error, <<>>)
             /\ emitted' = emitted
    /\ prevOp' = op
    /\ pre' = pending.pre
    /\ pending' = None
    /\ UNCHANGED <<initialised, left>>
    /\ HistoryUnchanged
    /\ ContextsUnchanged

resetSettings ==
    /\ initialised
    /\ \E writeOk \in BOOLEAN, cleared \in BOOLEAN :
        LET error == AppError(STORAGE_ERROR, 4003,
                         AppError(STORAGE_ERROR, 2007, SetError))
        IN
        IF writeOk
        THEN /\ ~cleared
             /\ store' = StoreAfterSet(store, "qrSettings", DEFAULT_SETTINGS)
             /\ cache' = CacheAfterSet(cache, "qrSettings", DEFAULT_SETTINGS)
             /\ currentSettings' = DEFAULT_SETTINGS
             /\ Completes(Done("resetSettings", <<>>, TRUE, NoError,
                    DEFAULT_SETTINGS),
                    <<Event("settingsReset", DEFAULT_SETTINGS)>>)
        ELSE /\ store' = tryRecovery(store, error, cleared)
             /\ cache' = CacheAfterFailedSet(cache)
             /\ currentSettings' = currentSettings
             /\ Completes(Done("resetSettings", <<>>, FALSE, error, <<>>), <<>>)
    /\ UNCHANGED <<initialised, pending>>
    /\ HistoryUnchanged
    /\ ContextsUnchanged

\* options.js saveSettings: the options page writes the record it read from
\* its form straight to chrome.storage.local; this context's cache is not told
optionsSaveSettings ==
    /\ left > 0
    /\ left' = left - 1
    /\ \E settings \in { ValidB, [ValidA EXCEPT !.size = 50],
                        [DEFAULT_SETTINGS EXCEPT !.correctLevel = "X"] } :
        /\ store' = StoreAfterSet(store, "qrSettings", settings)
        /\ prevOp' = op
        /\ op' = Done("optionsSaveSettings", settings, TRUE, NoError, <<>>)
    /\ pre' = Snapshot
    /\ UNCHANGED <<cache, currentSettings, initialised, pending, emitted>>
    /\ HistoryUnchanged
    /\ ContextsUnchanged

\* the timer set by get and set deletes the cache entry
cacheExpire ==
    /\ \E key \in {"qrSettings", "qrHistory"} :
        /\ cache[key].has
        /\ cache' = [cache EXCEPT ![key] = NoEntry]
    /\ UNCHANGED <<store, currentSettings, initialised, pending, op, pre,
                   prevOp, emitted, left>>
    /\ HistoryUnchanged
    /\ ContextsUnchanged

-----------------------------------------------------------------------------
(* HistoryManager and the history operations of StorageManager *)


MissingId == 0

\* ids passed to delete: of the first, second and last entry shown, or none
DeleteInputs(list) ==
    {MissingId} \cup {list[i].id : i \in {1, 2, Len(list)} \cap DOMAIN list}


History(s) == GetValue(s.cache, s.store, "qrHistory")

\* getHistory() resolved: the array every operation then works on
Read == GetValue(cache, store, "qrHistory")

\* getHistory() rejected
ReadFails(readOk) == GetFails(cache, "qrHistory", readOk)

add ==
    \E content \in {"hello world", "a@b.com", ""}, readOk, writeOk \in BOOLEAN :
        LET newItem == [content |-> content, timestamp |-> now + 1,
                        id |-> nextId, type |-> detectContentType(content)]
            history == Unshift(<<newItem>>, Read)
            Wrap(cause) == AppError(STORAGE_ERROR, 8102, cause)
        IN
        /\ onlyAdds' = onlyAdds
        /\ UNCHANGED hm
        /\ ConfigUnchanged
        /\ ContextsUnchanged
        /\ IF content = ""
           THEN /\ ~readOk /\ ~writeOk
                /\ Throws("add", content,
                       Wrap(AppError(VALIDATION_ERROR, 8101, NoError)),
                       Wrap(NoError))
                /\ UNCHANGED <<cache, now, nextId, added>>
           ELSE /\ now' = now + 1
                /\ nextId' = nextId + 1
                /\ IF ReadFails(readOk)
                   THEN /\ ~writeOk
                        /\ Throws("add", content, Wrap(GetError), GetError)
                        /\ UNCHANGED <<cache, added>>
                   ELSE /\ readOk
                        /\ IF writeOk
                           THEN /\ Returns("add", content, "qrHistory", history,
                                       newItem,
                                       <<Event("historyAdded", newItem)>>)
                                /\ added' = <<newItem>> \o added
                           ELSE /\ Throws("add", content, Wrap(SetError),
                                       SetError)
                                /\ cache' = CacheAfterFailedSet(cache)
                                /\ added' = added

saveToHistory ==
    \E content \in {"https://example.com"}, readOk, writeOk \in BOOLEAN :
        LET Wrap(cause) == AppError(STORAGE_ERROR, 2005, cause)
            newEntry == [content |-> content, timestamp |-> now + 1,
                         id |-> nextId, type |-> "undefined"]
            history == Unshift(<<newEntry>>, Read)
        IN
        /\ onlyAdds' = onlyAdds
        /\ UNCHANGED hm
        /\ ConfigUnchanged
        /\ ContextsUnchanged
        /\ IF ReadFails(readOk)
           THEN /\ ~writeOk
                /\ Throws("saveToHistory", content, Wrap(GetError), GetError)
                /\ UNCHANGED <<cache, added, now, nextId>>
           ELSE /\ readOk
                /\ now' = now + 1
                /\ nextId' = nextId + 1
                /\ IF writeOk
                   THEN /\ Returns("saveToHistory", content, "qrHistory",
                               history, newEntry, <<>>)
                        /\ added' = <<newEntry>> \o added
                   ELSE /\ Throws("saveToHistory", content, Wrap(SetError),
                               SetError)
                        /\ cache' = CacheAfterFailedSet(cache)
                        /\ added' = added

delete ==
    \E id \in DeleteInputs(History([cache |-> cache, store |-> store]))
              \cup DeleteInputs(store.qrHistory),
       readOk, writeOk \in BOOLEAN :
        LET Wrap(cause) == AppError(STORAGE_ERROR, 8202, cause)
            index == findIndex(Read, id)
            deletedItem == Read[index]
        IN
        /\ onlyAdds' = FALSE
        /\ UNCHANGED <<hm, now, nextId, added>>
        /\ ConfigUnchanged
        /\ ContextsUnchanged
        /\ IF ReadFails(readOk)
           THEN /\ ~writeOk
                /\ Throws("delete", id, Wrap(GetError), GetError)
                /\ cache' = cache
           ELSE /\ readOk
                /\ IF index = 0
                   THEN /\ ~writeOk
                        /\ Throws("delete", id,
                               Wrap(AppError(VALIDATION_ERROR, 8201, NoError)),
                               Wrap(NoError))
                        /\ cache' = CacheAfterGet(cache, store, "qrHistory")
                   ELSE IF writeOk
                   THEN Returns("delete", id, "qrHistory",
                            Splice(Read, index), deletedItem,
                            <<Event("historyDeleted", deletedItem)>>)
                   ELSE /\ Throws("delete", id, Wrap(SetError), SetError)
                        /\ cache' = CacheAfterFailedSet(cache)

deleteByIndex ==
    \E index \in {0 - 1, 0, 1, Len(store.qrHistory)}, readOk, writeOk \in BOOLEAN :
        LET Wrap(cause) == AppError(STORAGE_ERROR, 8204, cause)
            deletedItem == Read[index + 1]
        IN
        /\ onlyAdds' = FALSE
        /\ UNCHANGED <<hm, now, nextId, added>>
        /\ ConfigUnchanged
        /\ ContextsUnchanged
        /\ IF ReadFails(readOk)
           THEN /\ ~writeOk
                /\ Throws("deleteByIndex", index, Wrap(GetError), GetError)
                /\ cache' = cache
           ELSE /\ readOk
                /\ IF index < 0 \/ index >= Len(Read)
                   THEN /\ ~writeOk
                        /\ Throws("deleteByIndex", index,
                               Wrap(AppError(VALIDATION_ERROR, 8203, NoError)),
                               Wrap(NoError))
                        /\ cache' = CacheAfterGet(cache, store, "qrHistory")
                   ELSE IF writeOk
                   THEN Returns("deleteByIndex", index, "qrHistory",
                            Splice(Read, index + 1), deletedItem,
                            <<Event("historyDeleted", deletedItem)>>)
                   ELSE /\ Throws("deleteByIndex", index, Wrap(SetError),
                               SetError)
                        /\ cache' = CacheAfterFailedSet(cache)

\* HistoryManager.clear, through StorageManager.clearHistory
clear ==
    \E writeOk \in BOOLEAN :
        /\ onlyAdds' = FALSE
        /\ UNCHANGED <<hm, now, nextId, added>>
        /\ ConfigUnchanged
        /\ ContextsUnchanged
        /\ IF writeOk
           THEN Returns("clear", <<>>, "qrHistory", <<>>, <<>>,
                    <<Event("historyCleared", <<>>)>>)
           ELSE /\ Throws("clear", <<>>,
                       AppError(STORAGE_ERROR, 8301,
                           AppError(STORAGE_ERROR, 2006, SetError)),
                       SetError)
                /\ cache' = CacheAfterFailedSet(cache)

\* the array import writes back
\* the items unshifted one at a time
importWrittenOneByOne(items, history) ==
    Unshift([i \in DOMAIN items |-> items[Len(items) + 1 - i]], history)

importWritten(items, history) == Unshift(items, history)

\* JSON.parse(data).items, of a text exportAsJson wrote
importFromJson(data) == data.items

\* import(data, 'json') with data that parses to items: a file of two
\* items, or the text one of the last two operations exported
import ==
    \E items \in
            { << [content |-> "note: x", timestamp |-> 0, id |-> 0 - 1,
                  type |-> "text"],
                 [content |-> "+1 (555) 123-4567", timestamp |-> 0,
                  id |-> 0 - 2, type |-> "phone"] >> } \cup
                 {importFromJson(o.result) :
                     o \in {x \in {op, prevOp} : x.name = "export" /\ x.ok}},
       readOk, writeOk \in BOOLEAN :
        LET Wrap(cause) == AppError(RUNTIME_ERROR, 8602, cause) IN
        /\ onlyAdds' = FALSE
        /\ UNCHANGED <<hm, now, nextId, added>>
        /\ ConfigUnchanged
        /\ ContextsUnchanged
        /\ IF ReadFails(readOk)
           THEN /\ ~writeOk
                /\ Throws("import", items, Wrap(GetError), GetError)
                /\ cache' = cache
           ELSE /\ readOk
                /\ IF writeOk
                   THEN Returns("import", items, "qrHistory",
                            importWritten(items, Read), items,
                            <<Event("historyImported", Len(items))>>)
                   ELSE /\ Throws("import", items, Wrap(SetError), SetError)
                        /\ cache' = CacheAfterFailedSet(cache)

\* String.prototype.toLowerCase, for the strings used here: the queries are
\* the only ones with upper-case letters
toLowerCase(string) ==
    CASE string = "HELLO" -> "hello"
      [] string = "URL" -> "url"
      [] OTHER -> string

\* filtered.filter(item => item.content.toLowerCase().includes(searchQuery))
Includes(content, query) ==
    LET cs == Chars(toLowerCase(content))
        qs == Chars(query)
    IN \E i \in 0..(Len(cs) - Len(qs)) : SubSeq(cs, i + 1, i + Len(qs)) = qs

filterAndSort(h, history) ==
    LET OfType(item) == item.type = h.filterType
        Matches(item) == Includes(item.content, h.searchQuery)
        byType == IF h.filterType /= "all"
                  THEN SelectSeq(history, OfType) ELSE history
        byQuery == IF h.searchQuery /= ""
                   THEN SelectSeq(byType, Matches) ELSE byType
    IN Sort(h, byQuery)

\* what getAll leaves in the cache: the array getHistory returned, which is
\* the array filterAndSort sorted when neither a type filter nor a search
\* query made a copy of it
getAllCached(h, history) ==
    IF h.filterType = "all" /\ h.searchQuery = ""
    THEN filterAndSort(h, history) ELSE history

getAll ==
    \E readOk \in BOOLEAN :
        /\ onlyAdds' = FALSE
        /\ UNCHANGED <<hm, now, nextId, added>>
        /\ ConfigUnchanged
        /\ ContextsUnchanged
        /\ IF ReadFails(readOk)
           THEN /\ Throws("getAll", <<>>,
                       AppError(STORAGE_ERROR, 8001, GetError), GetError)
                /\ cache' = cache
           ELSE /\ readOk
                /\ store' = store
                /\ cache' = CacheAfterSet(cache, "qrHistory",
                                getAllCached(hm, Read))
                /\ Completes(Done("getAll", <<>>, TRUE, NoError,
                       filterAndSort(hm, Read)), <<>>)

\* search(query): sets searchQuery, awaits getAll, and filters what it
\* returned by content or type
search ==
    \E query \in {"HELLO", "URL"}, readOk \in BOOLEAN :
        LET h == [hm EXCEPT !.searchQuery = toLowerCase(query)]
            Keep(item) ==
                \/ Includes(item.content, h.searchQuery)
                \/ item.type /= "undefined"
                   /\ Includes(item.type, h.searchQuery)
        IN
        /\ hm' = h
        /\ onlyAdds' = FALSE
        /\ UNCHANGED <<now, nextId, added>>
        /\ ConfigUnchanged
        /\ ContextsUnchanged
        /\ IF ReadFails(readOk)
           THEN /\ Throws("search", query,
                       AppError(RUNTIME_ERROR, 8401,
                           AppError(STORAGE_ERROR, 8001, GetError)),
                       GetError)
                /\ cache' = cache
           ELSE /\ readOk
                /\ store' = store
                /\ cache' = CacheAfterSet(cache, "qrHistory",
                                getAllCached(h, Read))
                /\ Completes(Done("search", query, TRUE, NoError,
                       SelectSeq(filterAndSort(h, Read), Keep)), <<>>)

\* JSON.stringify({exportTime, totalItems, items: history}, null, 2)
exportAsJson(history) ==
    [exportTime |-> now, totalItems |-> Len(history), items |-> history]

\* export('json'): awaits getAll and returns the text of what it returned
export ==
    \E readOk \in BOOLEAN :
        /\ onlyAdds' = FALSE
        /\ UNCHANGED <<hm, now, nextId, added>>
        /\ ConfigUnchanged
        /\ ContextsUnchanged
        /\ IF ReadFails(readOk)
           THEN /\ Throws("export", "json",
                       AppError(RUNTIME_ERROR, 8502,
                           AppError(STORAGE_ERROR, 8001, GetError)),
                       GetError)
                /\ cache' = cache
           ELSE /\ readOk
                /\ store' = store
                /\ cache' = CacheAfterSet(cache, "qrHistory",
                                getAllCached(hm, Read))
                /\ Completes(Done("export", "json", TRUE, NoError,
                       exportAsJson(filterAndSort(hm, Read))), <<>>)

setSort ==
    \E by \in {<<"timestamp", "desc">>, <<"timestamp", "asc">>,
               <<"content", "asc">>} :
        /\ hm' = [hm EXCEPT !.sortBy = by[1], !.sortOrder = by[2]]
        /\ hm' /= hm
        /\ onlyAdds' = FALSE
        /\ UNCHANGED <<store, cache, now, nextId, added, op, pre, prevOp,
                       emitted, left>>
        /\ ConfigUnchanged
        /\ ContextsUnchanged

-----------------------------------------------------------------------------
(* QRRecognizer (content script): selection controller *)

\* this.selectionBox: null, or the overlay element with its style rectangle
NoBox == [present |-> FALSE, left |-> 0, top |-> 0, width |-> 0, height |-> 0]

\* createSelectionBox followed by updateSelectionBox(left, top, width, height)
Box(left_, top, width, height) ==
    [present |-> TRUE, left |-> left_, top |-> top, width |-> width,
     height |-> height]

\* showNotification(message, type); detail is the variable part of the message
Notice(key, type, detail) == [key |-> key, type |-> type, detail |-> detail]

\* the sender got no response
NoResponse == [status |-> "none"]

addEventListener(listeners, type, fn) ==
    [listeners EXCEPT ![type] = @ \cup {fn}]

\* removes the listener that is the function object fn, if it is attached
removeEventListener(listeners, type, fn) ==
    [listeners EXCEPT ![type] = @ \ {fn}]

\* toggleSelectionMode, branch on: crosshair cursor and three listeners;
\* p.bound + k is the k-th function object made by handler.bind(this) in the
\* call: every bind makes a new function
attach(p) ==
    [p EXCEPT !.cursor = "crosshair",
              !.listeners =
                  addEventListener(
                      addEventListener(
                          addEventListener(@, "mousedown", p.bound + 1),
                          "mousemove", p.bound + 2),
                      "mouseup", p.bound + 3),
              !.bound = @ + 3]

\* toggleSelectionMode branch off, handleMouseUp: default cursor and three
\* removeEventListener calls, each with a function bound in the call
detach(p) ==
    [p EXCEPT !.cursor = "default",
              !.listeners =
                  removeEventListener(
                      removeEventListener(
                          removeEventListener(@, "mousedown", p.bound + 1),
                          "mousemove", p.bound + 2),
                      "mouseup", p.bound + 3),
              !.bound = @ + 3]

\* this.isSelectionMode = true
toggledOn(mode) == TRUE

\* this.isSelectionMode = !this.isSelectionMode
toggled(mode) == ~mode


Handled(name, response, outcome, code, data) ==
    [name |-> name,
     pre |-> [qr |-> qr, page |-> page,
              inFlight |-> Cardinality(captures.running),
              started |-> captures.started, history |-> store.qrHistory],
     response |-> response,
     outcome |-> outcome, code |-> code, data |-> data, from |-> "none"]

\* an event of the capture started from the pointer or from a message
OfCapture(from, event) == [event EXCEPT !.from = from]

ManagersUnchanged ==
    UNCHANGED <<currentSettings, initialised, pending, hm, op, pre, prevOp,
                emitted, onlyAdds, popup, write, perf, ins>>

StorageUnchanged == UNCHANGED <<store, cache, now, nextId, added>>

\* an event delivered to the content script
Delivered ==
    /\ left > 0
    /\ left' = left - 1
    /\ ManagersUnchanged
    /\ UNCHANGED <<router, reply, eh>>

\* message TOGGLE_SELECTION_MODE: toggleSelectionMode, then the response
toggleSelectionMode ==
    LET mode == toggled(qr.isSelectionMode) IN
    /\ Delivered
    /\ qr' = [qr EXCEPT !.isSelectionMode = mode,
                        !.selectionBox = IF mode THEN @ ELSE NoBox]
    /\ page' = IF mode THEN attach(page) ELSE detach(page)
    /\ shown' = <<Notice(IF mode THEN "selectionOn" ELSE "selectionOff",
                         "info", <<>>)>>
    /\ ev' = Handled("toggle", [status |-> "ok", isSelectionMode |-> mode],
                     "none", 0, "")
    /\ UNCHANGED captures
    /\ StorageUnchanged

\* messages START_SELECTION and END_SELECTION: the listener calls
\* this.startSelection(request.x, request.y) or this.endSelection(), which
\* QRRecognizer does not define; the TypeError leaves the listener before
\* sendResponse is reached
selectionMessage ==
    \E action \in {"START_SELECTION", "END_SELECTION"} :
        /\ Delivered
        /\ StorageUnchanged
        /\ ev' = Handled(action, NoResponse, "threw", 0, "")
        /\ shown' = <<>>
        /\ UNCHANGED <<qr, page, captures>>

\* updateSelectionBox(this.startX, this.startY, this.startX, this.startY)
boxAtMouseDown(x, y) == Box(x, y, x, y)

\* a mousedown event: every attached listener runs handleMouseDown; a second
\* run replaces the overlay the first made by an equal one
handleMouseDown ==
    \E pos \in {<<10, 10>>, <<30, 5>>} :
        /\ Delivered
        /\ page.listeners["mousedown"] /= {}
        /\ qr' = IF ~qr.isSelectionMode THEN qr
                 ELSE [qr EXCEPT !.startX = pos[1], !.startY = pos[2],
                                 !.selectionBox = boxAtMouseDown(pos[1], pos[2])]
        /\ ev' = Handled("mousedown", NoResponse,
                         IF qr.isSelectionMode THEN "none" ELSE "ignored",
                         0, "")
        /\ shown' = <<>>
        /\ UNCHANGED <<page, captures>>
        /\ StorageUnchanged

boxAtMouseMove(q, x, y) ==
    Box(IF q.startX <= x THEN q.startX ELSE x,
        IF q.startY <= y THEN q.startY ELSE y,
        IF x < q.startX THEN q.startX - x ELSE x - q.startX,
        IF y < q.startY THEN q.startY - y ELSE y - q.startY)

handleMouseMove ==
    \E pos \in {<<10, 10>>, <<30, 5>>} :
        /\ Delivered
        /\ page.listeners["mousemove"] /= {}
        /\ qr' = IF ~qr.isSelectionMode \/ ~qr.selectionBox.present THEN qr
                 ELSE [qr EXCEPT !.currentX = pos[1], !.currentY = pos[2],
                                 !.selectionBox =
                                     boxAtMouseMove(qr, pos[1], pos[2])]
        /\ ev' = Handled("mousemove", NoResponse,
                         IF qr.isSelectionMode /\ qr.selectionBox.present
                         THEN "none" ELSE "ignored", 0, "")
        /\ shown' = <<>>
        /\ UNCHANGED <<page, captures>>
        /\ StorageUnchanged

(* QRRecognizer: capture pipeline *)


\* loadHtml2Canvas: returns at once when the flag is set; appends a script
\* element when the global is undefined; else sets the flag
loadHtml2Canvas(q, p) ==
    IF q.html2canvasLoaded THEN [qr |-> q, page |-> p]
    ELSE IF ~p.html2canvas
    THEN [qr |-> q,
          page |-> [p EXCEPT !.scripts = @ + 1, !.loads = @ + 1]]
    ELSE [qr |-> [q EXCEPT !.html2canvasLoaded = TRUE], page |-> p]

\* no library check
libraryErrorNone(p) == 0

\* the AppError thrown by the library checks, 0 when both libraries are there
libraryError(p) ==
    IF ~p.html2canvas THEN 7001 ELSE IF ~p.jsQR THEN 7002 ELSE 0

\* the catch block of recognizeFromRect: the notification it shows, with
\* the message of the caught error
failureNotice(code) ==
    Notice("failed", "error",
           CASE code = 7001 -> "html2canvas library not available"
             [] code = 7002 -> "jsQR library not available"
             [] code = 2005 -> "Failed to save to history"
             [] OTHER -> "capture failed")

\* the whole content
previewUncut(data) == Chars(data)

\* code.data.substring(0, 50) + (code.data.length > 50 ? '...' : '')
preview(data) ==
    LET cs == Chars(data) IN
    SubSeq(cs, 1, IF Len(cs) < 50 THEN Len(cs) ELSE 50)
        \o (IF Len(cs) > 50 THEN <<".", ".", ".">> ELSE <<>>)

\* recognizeFromRect called: captures after its synchronous part
capturesAfterCall(from, rect, code) ==
    IF code = 0
    THEN [captures EXCEPT
             !.running = @ \cup {[id |-> captures.started + 1, from |-> from,
                                   rect |-> rect, stage |-> "rasterizing",
                                   data |-> ""]},
             !.started = @ + 1]
    ELSE [captures EXCEPT !.started = @ + 1, !.failed = @ + 1]

\* the overlay's rectangle with its 2px border on each side
getBoundingClientRect(box) ==
    Box(box.left, box.top, box.width + 4, box.height + 4)

\* a mouseup event: the first attached listener that runs handleMouseUp ends
\* the selection, the others return at their guard
handleMouseUp ==
    /\ Delivered
    /\ page.listeners["mouseup"] /= {}
    /\ StorageUnchanged
    /\ IF ~qr.isSelectionMode \/ ~qr.selectionBox.present
       THEN /\ ev' = Handled("mouseup", NoResponse, "ignored", 0, "")
            /\ shown' = <<>>
            /\ UNCHANGED <<qr, page, captures>>
       ELSE LET rect == getBoundingClientRect(qr.selectionBox)
                after == loadHtml2Canvas(qr, page)
                code == libraryError(after.page)
            IN
            /\ qr' = [after.qr EXCEPT !.isSelectionMode = FALSE,
                                      !.selectionBox = NoBox]
            /\ page' = detach(after.page)
            /\ captures' = capturesAfterCall("pointer", rect, code)
            /\ shown' = IF code = 0 THEN <<>> ELSE <<failureNotice(code)>>
            /\ ev' = OfCapture("pointer",
                           Handled("mouseup", NoResponse,
                               IF code = 0 THEN "started" ELSE "failed",
                               code, ""))

\* message RECOGNIZE_QR: recognizeFromRect(request.rect)
recognizeQr ==
    \E rect \in {Box(0, 0, 20, 20)} :
        LET after == loadHtml2Canvas(qr, page)
            code == libraryError(after.page)
        IN
        /\ Delivered
        /\ StorageUnchanged
        /\ qr' = after.qr
        /\ page' = after.page
        /\ captures' = capturesAfterCall("message", rect, code)
        /\ shown' = IF code = 0 THEN <<>> ELSE <<failureNotice(code)>>
        /\ ev' = OfCapture("message",
                       Handled("recognizeQr",
                           IF code = 0 THEN NoResponse
                           ELSE [status |-> "error"],
                           IF code = 0 THEN "started" ELSE "failed", code, ""))

\* a capture that ended: no longer in flight
Ended(c, failed) ==
    [captures EXCEPT !.running = @ \ {c},
                     !.failed = IF failed THEN @ + 1 ELSE @]

\* the response a RECOGNIZE_QR sender is sent when the capture ends
resultResponse(c, response) ==
    IF c.from = "message" THEN response ELSE NoResponse

\* a capture resumes after html2canvas: crop, decode, the awaited
\* logPerformance, whose set may have failed, and the no-result branch
captureDecoded ==
    \* what decoding can yield: nothing, or a code with its data
    \E c \in captures.running, rasterOk \in BOOLEAN,
       code \in {[found |-> FALSE, data |-> ""]} \cup
                {[found |-> TRUE, data |-> d] :
                    d \in {"aaaaaaaaaaaaaaaaaaaaaaaaaaaaaaaaaaaaaaaaaaaaaaaaaa",
                           "aaaaaaaaaaaaaaaaaaaaaaaaaaaaaaaaaaaaaaaaaaaaaaaaaaa"}},
       perfOk, cleared \in BOOLEAN :
        /\ c.stage = "rasterizing"
        /\ ManagersUnchanged
        /\ UNCHANGED <<router, reply, eh>>
        /\ UNCHANGED <<qr, page, left, now, nextId, added>>
        /\ IF ~rasterOk \/ c.rect.width = 0 \/ c.rect.height = 0
           THEN /\ ~rasterOk /\ ~code.found /\ perfOk /\ ~cleared
                /\ UNCHANGED <<store, cache>>
                /\ captures' = Ended(c, TRUE)
                /\ shown' = <<failureNotice(7003)>>
                /\ ev' = OfCapture(c.from,
                               Handled("captureDone",
                                   resultResponse(c, [status |-> "error"]),
                                   "failed", 7003, ""))
           ELSE /\ perfOk => ~cleared
                /\ store' = IF perfOk THEN store
                            ELSE tryRecovery(store, SetError, cleared)
                /\ cache' = IF perfOk THEN cache
                            ELSE CacheAfterFailedSet(cache)
                /\ IF code.found
                   THEN /\ captures' =
                            [captures EXCEPT !.running =
                                (@ \ {c}) \cup
                                {[c EXCEPT !.stage = "saving",
                                           !.data = code.data]}]
                        /\ shown' = <<>>
                        /\ ev' = OfCapture(c.from,
                                       Handled("captureDecoded", NoResponse,
                                           "decoded", 0, code.data))
                   ELSE /\ captures' = Ended(c, FALSE)
                        /\ shown' = <<Notice("notRecognized", "warning", <<>>)>>
                        /\ ev' = OfCapture(c.from,
                                       Handled("captureDone",
                                           resultResponse(c,
                                               [success |-> FALSE,
                                                data |-> "null"]),
                                           "noResult", 0, ""))

\* a capture resumes after storageManager.saveToHistory(code.data)
captureSaved ==
    \E c \in captures.running, readOk, writeOk, cleared \in BOOLEAN :
        LET newEntry == [content |-> c.data,
                         timestamp |-> now + 1, id |-> nextId,
                         type |-> "undefined"]
            history == Unshift(<<newEntry>>, Read)
            failed(handled) ==
                /\ store' = tryRecovery(store, handled, cleared)
                /\ captures' = Ended(c, TRUE)
                /\ shown' = <<failureNotice(2005)>>
                /\ ev' = OfCapture(c.from,
                               Handled("captureDone",
                                   resultResponse(c, [status |-> "error"]),
                                   "failed", 7003, c.data))
                /\ added' = added
        IN
        /\ c.stage = "saving"
        /\ ManagersUnchanged
        /\ UNCHANGED <<router, reply, eh>>
        /\ UNCHANGED <<qr, page, left>>
        /\ IF ReadFails(readOk)
           THEN /\ ~writeOk
                /\ failed(GetError)
                /\ UNCHANGED <<cache, now, nextId>>
           ELSE /\ readOk
                /\ now' = now + 1
                /\ nextId' = nextId + 1
                /\ IF writeOk
                   THEN /\ ~cleared
                        /\ store' = StoreAfterSet(store, "qrHistory", history)
                        /\ cache' = CacheAfterSet(cache, "qrHistory", history)
                        /\ added' = <<newEntry>> \o added
                        /\ captures' = Ended(c, FALSE)
                        /\ shown' = <<Notice("recognized", "success",
                                             preview(c.data))>>
                        /\ ev' = OfCapture(c.from,
                                       Handled("captureDone",
                                           resultResponse(c,
                                               [success |-> TRUE,
                                                data |-> c.data]),
                                           "success", 0, c.data))
                   ELSE /\ failed(SetError)
                        /\ cache' = CacheAfterFailedSet(cache)

\* the script element loaded: onload sets the flag; whether the content
\* script then sees the html2canvas global depends on the world the script
\* ran in
scriptLoaded ==
    \E visible \in BOOLEAN :
        /\ page.scripts > 0
        /\ page' = [page EXCEPT !.scripts = @ - 1,
                                !.html2canvas = @ \/ visible]
        /\ qr' = [qr EXCEPT !.html2canvasLoaded = TRUE]
        /\ UNCHANGED <<captures, ev, shown, left>>
        /\ StorageUnchanged
        /\ ManagersUnchanged
        /\ UNCHANGED <<router, reply, eh>>

\* the script element failed to load: onerror reports a NETWORK_ERROR, for
\* which recovery changes nothing
scriptFailed ==
    /\ page.scripts > 0
    /\ page' = [page EXCEPT !.scripts = @ - 1]
    /\ UNCHANGED <<qr, captures, ev, shown, left>>
    /\ StorageUnchanged
    /\ ManagersUnchanged
    /\ UNCHANGED <<router, reply, eh>>

\* the recognizer after its constructor ran init, on a page where the
\* libraries are defined or not
RecognizerInit(html2canvasDefined, jsQRDefined) ==
    /\ qr = [isSelectionMode |-> FALSE, selectionBox |-> NoBox,
             startX |-> 0, startY |-> 0, currentX |-> 0, currentY |-> 0,
             html2canvasLoaded |-> html2canvasDefined]
    /\ page = [cursor |-> "default",
               listeners |-> [t \in {"mousedown", "mousemove", "mouseup"} |-> {}],
               bound |-> 0,
               html2canvas |-> html2canvasDefined,
               jsQR |-> jsQRDefined,
               scripts |-> IF html2canvasDefined THEN 0 ELSE 1,
               loads |-> IF html2canvasDefined THEN 0 ELSE 1]
    /\ captures = [running |-> {}, started |-> 0, failed |-> 0]
    /\ ev = [name |-> "none", pre |-> <<>>, response |-> NoResponse,
             outcome |-> "none", code |-> 0, data |-> "", from |-> "none"]
    /\ shown = <<>>

-----------------------------------------------------------------------------
(* BackgroundService (background context): message and command router *)

\* request.action of the messages sent to the background
MessageInputs == {"GET_CURRENT_TAB", "GET_TAB_INFO", "RECOGNIZE_QR", "bogus"}

\* commands delivered by chrome.commands.onCommand
CommandInputs == {"scan_qr", "_execute_action", "bogus"}

\* no response sent
unknownResponseNone(action) == NoResponse

\* the response to a message no handler is registered for
unknownResponse(action) ==
    [status |-> "error", error |-> "Unknown action", action |-> action]

\* this.errorHistory.push(error), without the shift
addToHistoryUnbounded(history, error) == Append(history, error)

\* ErrorHandler.addToHistory: push, then shift when longer than maxHistorySize
addToHistory(history, error) ==
    LET pushed == Append(history, error) IN
    IF Len(pushed) > 50 THEN Tail(pushed) ELSE pushed

\* ErrorHandler.handleError on an error of the given type: the handler
\* afterwards (logError and the recovery steps leave it as it is)
handleError(h, type) ==
    [h EXCEPT !.errorHistory =
                  addToHistory(@, [id |-> h.handled + 1, type |-> type]),
              !.handled = @ + 1]

\* the last event the background handled
Replied(kind, name, registered, response, handler, value) ==
    [kind |-> kind, name |-> name, registered |-> registered,
     response |-> response, ran |-> registered, threw |-> FALSE,
     count |-> reply.count + 1, handler |-> handler, value |-> value,
     failed |-> handler \in {"throws", "rejects"}
                \/ (handler = "async" /\ value.status = "error"),
     caught |-> handler = "throws", pre |-> eh, notified |-> <<>>]

\* an event delivered to the background service
Dispatched ==
    /\ left > 0
    /\ left' = left - 1
    /\ ManagersUnchanged
    /\ StorageUnchanged
    /\ UNCHANGED <<qr, page, captures, ev, shown>>

\* the chrome.runtime.onMessage listener of setupMessageHandlers.  A handler
\* is an async function, as the registered ones, whose work ends with a value
\* (status 'success' or, from its own catch, status 'error') or rejects, or a
\* function that throws.  sendResponse is called with what the handler
\* returned: the promise itself for an async function, of which the caller
\* gets the serialised form, an object without a status; a throw is answered
\* from the catch block.  A rejected promise nobody handles reaches the
\* unhandledrejection listener of the error handler.
routeMessage ==
    \E action \in MessageInputs, workOk \in BOOLEAN :
        LET registered == action \in DOMAIN router.messageHandlers
            handler == IF registered THEN router.messageHandlers[action]
                       ELSE "none"
            value == IF handler = "async" /\ workOk
                     THEN [status |-> "success"]
                     ELSE IF handler = "async" THEN [status |-> "error"]
                     ELSE [status |-> "none"]
            response ==
                IF ~registered THEN unknownResponse(action)
                ELSE IF handler \in {"async", "rejects"}
                THEN [status |-> "promise"]
                ELSE [status |-> "error", error |-> "handler error",
                      action |-> action]
        IN
        /\ Dispatched
        /\ handler /= "async" => workOk
        /\ reply' = Replied("message", action, registered, response, handler,
                            value)
        /\ eh' = IF handler = "rejects" THEN handleError(eh, RUNTIME_ERROR)
                 ELSE eh
        /\ UNCHANGED router

\* the chrome.commands.onCommand listener of setupCommandHandlers: its catch
\* block passes the error thrown to errorHandler.handleError
routeCommand ==
    \E command \in CommandInputs :
        LET registered == command \in DOMAIN router.commandHandlers
            handler == IF registered THEN router.commandHandlers[command]
                       ELSE "none"
        IN
        /\ Dispatched
        /\ reply' = Replied("command", command, registered, NoResponse,
                            handler, [status |-> "none"])
        /\ eh' = CASE handler = "throws" -> handleError(eh, "UNKNOWN_ERROR")
                   [] handler = "rejects" -> handleError(eh, RUNTIME_ERROR)
                   [] OTHER -> eh
        /\ UNCHANGED router

\* an error reaches errorHandler.handleError from outside the router: a
\* window error or unhandled rejection, or a LOG_ERROR message with its type.
\* notifyCallbacks calls every element of errorCallbacks in turn, each call
\* in a try / catch: notified is the callbacks called, in that order
reportError ==
    \E type \in {STORAGE_ERROR, "PERMISSION_ERROR", "NETWORK_ERROR",
                 RUNTIME_ERROR},
       cleared \in BOOLEAN :
        /\ left > 0
        /\ left' = left - 1
        /\ ManagersUnchanged
        /\ type /= STORAGE_ERROR => ~cleared
        /\ eh' = handleError(eh, type)
        /\ store' = tryRecovery(store, [type |-> type], cleared)
        /\ reply' = [Replied("error", type, FALSE, NoResponse, "none",
                             [status |-> "none"])
                        EXCEPT !.notified = eh.errorCallbacks]
        /\ UNCHANGED <<cache, now, nextId, added, router>>
        /\ UNCHANGED <<qr, page, captures, ev, shown>>

\* errorHandler.onError(callback), with a callback that returns or throws
onError ==
    \E callback \in {"returns", "throws"} :
        /\ Dispatched
        /\ Len(eh.errorCallbacks) < 2
        /\ eh' = [eh EXCEPT !.errorCallbacks = Append(@, callback)]
        /\ UNCHANGED <<router, reply>>

\* errorHandler.offError(callback): splice at indexOf(callback)
offError ==
    \E i \in DOMAIN eh.errorCallbacks :
        /\ Dispatched
        /\ \A k \in 1..(i - 1) : eh.errorCallbacks[k] /= eh.errorCallbacks[i]
        /\ eh' = [eh EXCEPT !.errorCallbacks =
                                SubSeq(@, 1, i - 1) \o SubSeq(@, i + 1, Len(@))]
        /\ UNCHANGED <<router, reply>>

\* handlers.set(name, handler)
MapSet(handlers, name, kind) ==
    [n \in DOMAIN handlers \cup {name} |->
        IF n = name THEN kind ELSE handlers[n]]

\* handlers.delete(name)
MapDelete(handlers, name) == [n \in DOMAIN handlers \ {name} |-> handlers[n]]

registerMessageHandler ==
    \E action \in MessageInputs, kind \in {"async", "rejects", "throws"} :
        /\ Dispatched
        /\ router' = [router EXCEPT
                          !.messageHandlers = MapSet(@, action, kind)]
        /\ router' /= router
        /\ UNCHANGED <<reply, eh>>

unregisterMessageHandler ==
    \E action \in MessageInputs :
        /\ Dispatched
        /\ router' = [router EXCEPT !.messageHandlers = MapDelete(@, action)]
        /\ router' /= router
        /\ UNCHANGED <<reply, eh>>

registerCommandHandler ==
    \E command \in CommandInputs, kind \in {"async", "rejects", "throws"} :
        /\ Dispatched
        /\ router' = [router EXCEPT
                          !.commandHandlers = MapSet(@, command, kind)]
        /\ router' /= router
        /\ UNCHANGED <<reply, eh>>

unregisterCommandHandler ==
    \E command \in CommandInputs :
        /\ Dispatched
        /\ router' = [router EXCEPT !.commandHandlers = MapDelete(@, command)]
        /\ router' /= router
        /\ UNCHANGED <<reply, eh>>

\* the service after the module registered its handlers, and the error
\* handler of its context after it handled the given number of errors
RouterInit(errors) ==
    /\ router = [messageHandlers |->
                     [a \in {"GET_CURRENT_TAB", "GET_TAB_INFO"} |-> "async"],
                 commandHandlers |->
                     [c \in {"scan_qr", "_execute_action"} |-> "async"]]
    /\ eh = [errorHistory |->
                 [i \in 1..errors |-> [id |-> i, type |-> RUNTIME_ERROR]],
             handled |-> errors,
             errorCallbacks |-> <<>>]
    /\ reply = [kind |-> "none", name |-> "", registered |-> FALSE,
                response |-> NoResponse, ran |-> FALSE, threw |-> FALSE,
                count |-> 0, handler |-> "none", value |-> [status |-> "none"],
                failed |-> FALSE, caught |-> FALSE, pre |-> eh,
                notified |-> <<>>]

-----------------------------------------------------------------------------
(* The popup: debounced input handlers and a storage write with retries *)

maxRetries == 3

retryDelay == 1000

debounceDelay == 300

\* Function.prototype.toString: the source text of a function, which the
\* name of its target stands for; a function made by bind has no source text
toString(fn) ==
    IF fn.bound THEN "function () { [native code] }" ELSE fn.target

\* no timer of the event loop is due before time t
NoTimerBefore(t) ==
    /\ \A key \in DOMAIN popup.debounceTimers :
           popup.debounceTimers[key].due >= t
    /\ write.status = "waiting" => write.due >= t

\* a step of the popup's event loop
Scheduled ==
    /\ UNCHANGED <<currentSettings, initialised, pending, hm, op, pre, prevOp,
                   emitted, onlyAdds, now, nextId, added, left>>
    /\ UNCHANGED <<qr, page, captures, ev, shown, router, reply, eh, perf,
                   ins>>

\* the listener debounce returned, called for an input event on a field that
\* arrives d ms after the previous step: clearTimeout of the timer stored
\* under the key, then the new timer stored under it
input ==
    \E field \in {"currentUrl", "historySearch"}, value \in {"a", "b"},
       d \in {100, 300} :
        LET \* the handler setupEventListeners bound for the field
            fn == [target |-> IF field = "currentUrl" THEN "handleUrlInput"
                              ELSE "handleHistorySearch",
                   bound |-> TRUE]
            key == toString(fn)
            at == popup.clock + d
        IN
        /\ popup.inputs < MaxInputs
        /\ NoTimerBefore(at)
        /\ popup' =
               [popup EXCEPT
                   !.clock = at,
                   !.inputs = @ + 1,
                   !.debounceTimers =
                       [k \in DOMAIN @ \cup {key} |->
                           IF k = key
                           THEN [fn |-> fn, args |-> value, field |-> field,
                                 due |-> at + debounceDelay]
                           ELSE @[k]],
                   !.last[field] = [at |-> at, args |-> value, runs |-> 0,
                                    ranAt |-> 0, ranArgs |-> ""]]
        /\ UNCHANGED <<write, store, cache>>
        /\ Scheduled

\* the timeout callback of debounce: fn.apply(this, args), then the key is
\* deleted.  The timer that is due first fires, when it is due.
debounceTimer ==
    \E key \in DOMAIN popup.debounceTimers :
        LET timer == popup.debounceTimers[key] IN
        /\ NoTimerBefore(timer.due)
        /\ popup' =
               [popup EXCEPT
                   !.clock = timer.due,
                   !.debounceTimers = [k \in DOMAIN @ \ {key} |-> @[k]],
                   !.last[timer.field] =
                       [@ EXCEPT !.runs = @ + 1, !.ranAt = timer.due,
                                 !.ranArgs = timer.args]]
        /\ UNCHANGED <<write, store, cache>>
        /\ Scheduled

\* setWithRetry(key, value, retryCount): chrome.storage.local.set is called
setWithRetry(w, retryCount) ==
    [w EXCEPT !.status = "writing", !.retryCount = retryCount,
              !.attempts = @ + 1]

\* set('qrHistory', []) of clearHistory is called
set ==
    /\ write.status = "idle"
    /\ write' = setWithRetry(write, 0)
    /\ UNCHANGED <<popup, store, cache>>
    /\ Scheduled

\* the callback of chrome.storage.local.set.  Without lastError the promise
\* resolves and set caches the value; with lastError a retry is scheduled
\* while retryCount < maxRetries, else the promise rejects and set throws the
\* error it passed through handleError.
setCallback ==
    \E lastError \in BOOLEAN, cleared \in BOOLEAN :
        /\ write.status = "writing"
        /\ IF ~lastError
           THEN /\ ~cleared
                /\ write' = [write EXCEPT !.status = "resolved"]
                /\ store' = [store EXCEPT !.qrHistory = <<>>]
                /\ cache' = CacheAfterSet(cache, "qrHistory", <<>>)
           ELSE IF write.retryCount < maxRetries
           THEN /\ ~cleared
                /\ write' =
                       [write EXCEPT
                           !.status = "waiting",
                           !.due = popup.clock
                                   + retryDelay * (write.retryCount + 1),
                           !.delays = Append(@, retryDelay
                                                * (write.retryCount + 1))]
                /\ UNCHANGED <<store, cache>>
           ELSE /\ write' = [write EXCEPT !.status = "rejected",
                                          !.error = SetError]
                /\ store' = tryRecovery(store, SetError, cleared)
                /\ cache' = CacheAfterFailedSet(cache)
        /\ UNCHANGED popup
        /\ Scheduled

\* the timeout callback of setWithRetry: the next attempt
retryTimer ==
    /\ write.status = "waiting"
    /\ NoTimerBefore(write.due)
    /\ write' = setWithRetry(write, write.retryCount + 1)
    /\ popup' = [popup EXCEPT !.clock = write.due]
    /\ UNCHANGED <<store, cache>>
    /\ Scheduled

\* handleHistorySearch: historyManager.search(query), then renderHistory of
\* what it returned; its catch passes the error to handleError once more,
\* for which, a RUNTIME_ERROR, recovery changes nothing
handleHistorySearch ==
    \E query \in {"HELLO", ""}, readOk \in BOOLEAN :
        LET h == [hm EXCEPT !.searchQuery = toLowerCase(query)]
            Keep(item) ==
                \/ Includes(item.content, h.searchQuery)
                \/ item.type /= "undefined"
                   /\ Includes(item.type, h.searchQuery)
            results == SelectSeq(filterAndSort(h, Read), Keep)
        IN
        /\ hm' = h
        /\ onlyAdds' = FALSE
        /\ UNCHANGED <<now, nextId, added, write, perf, ins>>
        /\ ConfigUnchanged
        /\ UNCHANGED <<qr, page, captures, ev, shown, router, reply, eh>>
        /\ IF ReadFails(readOk)
           THEN /\ Throws("handleHistorySearch", query,
                       AppError(RUNTIME_ERROR, 8401,
                           AppError(STORAGE_ERROR, 8001, GetError)),
                       GetError)
                /\ UNCHANGED <<cache, popup>>
           ELSE /\ readOk
                /\ store' = store
                /\ cache' = CacheAfterSet(cache, "qrHistory",
                                getAllCached(h, Read))
                /\ popup' = [popup EXCEPT !.rendered = results]
                /\ Completes(Done("handleHistorySearch", query, TRUE,
                       NoError, results), <<>>)

\* the click listener of the delete button rendered at position index (its
\* data-index) and handleHistoryDelete: historyManager.deleteByIndex(index),
\* then loadHistory, which renders what getAll returns; the catch passes the
\* error deleteByIndex threw, a STORAGE_ERROR, to handleError once more
handleHistoryDelete ==
    \E position \in DOMAIN popup.rendered, readOk, writeOk \in BOOLEAN,
       cleared, clearedAgain \in BOOLEAN :
        LET index == position - 1
            pressed == [index |-> index, shown |-> popup.rendered[position]]
            Wrap(cause) == AppError(STORAGE_ERROR, 8204, cause)
            written == Splice(Read, index + 1)
            failed(error, handled) ==
                /\ store' = tryRecovery(tryRecovery(store, handled, cleared),
                                        error, clearedAgain)
                /\ popup' = popup
                /\ Completes(Done("handleHistoryDelete", pressed, FALSE,
                       error, <<>>), <<>>)
        IN
        /\ onlyAdds' = FALSE
        /\ UNCHANGED <<hm, now, nextId, added, write, perf, ins>>
        /\ ConfigUnchanged
        /\ UNCHANGED <<qr, page, captures, ev, shown, router, reply, eh>>
        /\ IF ReadFails(readOk)
           THEN /\ ~writeOk
                /\ failed(Wrap(GetError), GetError)
                /\ cache' = cache
           ELSE /\ readOk
                /\ IF index >= Len(Read)
                   THEN /\ ~writeOk
                        /\ failed(Wrap(AppError(VALIDATION_ERROR, 8203,
                                                NoError)),
                                  Wrap(NoError))
                        /\ cache' = CacheAfterGet(cache, store, "qrHistory")
                   ELSE IF writeOk
                   THEN /\ ~cleared /\ ~clearedAgain
                        /\ store' = StoreAfterSet(store, "qrHistory", written)
                        /\ cache' = CacheAfterSet(cache, "qrHistory",
                                        getAllCached(hm, written))
                        /\ popup' = [popup EXCEPT !.rendered =
                                         filterAndSort(hm, written)]
                        /\ Completes(Done("handleHistoryDelete", pressed,
                               TRUE, NoError, Read[index + 1]),
                               <<Event("historyDeleted", Read[index + 1])>>)
                   ELSE /\ failed(Wrap(SetError), SetError)
                        /\ cache' = CacheAfterFailedSet(cache)

\* the popup after init: loadHistory rendered what getAll returned,
\* setupEventListeners ran, no input event and no write yet
PopupInit ==
    /\ popup = [clock |-> 0, inputs |-> 0, debounceTimers |-> <<>>,
                rendered |-> filterAndSort(hm, store.qrHistory),
                last |-> [field \in {"currentUrl", "historySearch"} |->
                             [at |-> -1, args |-> "", runs |-> 0,
                              ranAt |-> 0, ranArgs |-> ""]]]
    /\ write = [status |-> "idle", retryCount |-> 0, attempts |-> 0,
                due |-> 0, delays |-> <<>>, error |-> NoError]
    /\ perf = [call |-> "none", cached |-> FALSE, reading |-> 0, got |-> 0,
               writing |-> 0, writes |-> 0, expiries |-> 0]
    /\ ins = [heap |-> <<>>, cached |-> 0, calls |-> <<>>, requests |-> <<>>]

-----------------------------------------------------------------------------
(* StorageManager: performance logging, over a store that never fails *)

\* a step of the storage manager that concerns no manager operation
StorageStep ==
    UNCHANGED <<currentSettings, initialised, pending, hm, now, nextId, op,
                pre, prevOp, emitted, added, onlyAdds, left, qr, page,
                captures, ev, shown, router, reply, eh, popup, write, ins>>

\* logPerformance(metric, startTime) is called: it runs up to its await of
\* get(PERFORMANCE_STATS, {}), which returns the cached statistics or calls
\* chrome.storage.local.get
logPerformance(f) ==
    IF f.cached THEN [f EXCEPT !.got = @ + 1]
    ELSE [f EXCEPT !.reading = @ + 1]

\* chrome.storage.local.set is called: one more write, counted up to
\* MaxWrites
setIssued(f) ==
    [f EXCEPT !.writes = IF @ < MaxWrites THEN @ + 1 ELSE @]

\* the single call: set(key, value), which calls chrome.storage.local.set,
\* or get(key), which returns the cached value or calls
\* chrome.storage.local.get; the statistics are cached or not at that time
storageCall ==
    \E call \in {"set", "get"}, hit, statsCached \in BOOLEAN :
        /\ perf.call = "none"
        /\ call = "set" => ~hit
        /\ perf' =
               LET f == [perf EXCEPT !.cached = statsCached] IN
               IF call = "set" THEN setIssued([f EXCEPT !.call = "writing"])
               ELSE IF hit THEN [f EXCEPT !.call = "done"]
               ELSE [f EXCEPT !.call = "reading"]
        /\ UNCHANGED <<store, cache>>
        /\ StorageStep

\* the storage callback of the single call: set and get cache the value and
\* call logPerformance without awaiting it
storageCallDone ==
    /\ perf.call \in {"writing", "reading"}
    /\ perf' = logPerformance([perf EXCEPT !.call = "done"])
    /\ UNCHANGED <<store, cache>>
    /\ StorageStep

\* the storage read of a logPerformance call completes: get caches the
\* statistics, calls logPerformance for the read time and returns them
logPerformanceRead ==
    /\ perf.reading > 0
    /\ perf' = logPerformance([perf EXCEPT !.reading = @ - 1,
                                           !.cached = TRUE,
                                           !.got = @ + 1])
    /\ UNCHANGED <<store, cache>>
    /\ StorageStep

\* a logPerformance call that got the statistics updates them and calls
\* set(PERFORMANCE_STATS, stats)
logPerformanceSet ==
    /\ perf.got > 0
    /\ perf' = setIssued([perf EXCEPT !.got = @ - 1, !.writing = @ + 1])
    /\ UNCHANGED <<store, cache>>
    /\ StorageStep

\* the write of a logPerformance call completes: set caches the statistics
\* and calls logPerformance for the write time; the call that wrote returns
logPerformanceWritten ==
    /\ perf.writing > 0
    /\ perf' = logPerformance([perf EXCEPT !.writing = @ - 1,
                                           !.cached = TRUE])
    /\ UNCHANGED <<store, cache>>
    /\ StorageStep

\* the timer of a cache entry deletes the cached statistics
statsExpire ==
    /\ perf.cached
    /\ perf.expiries < MaxExpiries
    /\ perf' = [perf EXCEPT !.cached = FALSE, !.expiries = @ + 1]
    /\ UNCHANGED <<store, cache>>
    /\ StorageStep

-----------------------------------------------------------------------------
(* Overlapping history insertions. get resolves to the array object the
   cache holds, so the arrays are kept by identity: ins.heap[o] is the
   content of object o, ins.cached the object the cache entry refers to.
   chrome.storage.local serves the requests of one context in their order;
   every request succeeds. *)

\* HistoryManager.add(content) or StorageManager.saveToHistory(content) is
\* called and runs until it waits for the store: on a cache hit it gets the
\* cached array, unshifts its entry into it and calls
\* chrome.storage.local.set with it; on a miss it calls
\* chrome.storage.local.get. add builds its entry before getHistory(),
\* saveToHistory after it.
insertCall ==
    \E kind \in {"add", "saveToHistory"} :
        LET content == IF kind = "add" THEN "hello world"
                       ELSE "https://example.com"
            hit == cache.qrHistory.has
            entry == [content |-> content, timestamp |-> now + 1,
                      id |-> nextId,
                      type |-> IF kind = "add" THEN detectContentType(content)
                               ELSE "undefined"]
            created == IF kind = "add" \/ hit THEN <<entry>> ELSE <<>>
            history == Unshift(created, ins.heap[ins.cached])
            call == [kind |-> kind, content |-> content, entry |-> created,
                     stage |-> IF hit THEN "writing" ELSE "reading",
                     history |-> IF hit THEN ins.cached ELSE 0,
                     during |-> {i \in DOMAIN ins.calls :
                                    ins.calls[i].stage # "done"}]
            request == IF hit
                       THEN [call |-> Len(ins.calls) + 1, kind |-> "set",
                             data |-> history]
                       ELSE [call |-> Len(ins.calls) + 1, kind |-> "get",
                             data |-> <<>>]
        IN
        /\ Len(ins.calls) < MaxInserts
        /\ ins' = [ins EXCEPT
                      !.calls = Append(@, call),
                      !.requests = Append(@, request),
                      !.heap = IF hit THEN [@ EXCEPT ![ins.cached] = history]
                               ELSE @]
        /\ cache' = IF hit THEN [cache EXCEPT !.qrHistory.val = history]
                    ELSE cache
        /\ now' = now + Len(created)
        /\ nextId' = nextId + Len(created)
        /\ UNCHANGED <<store, emitted, added>>
        /\ UNCHANGED <<currentSettings, initialised, pending, hm, op, pre,
                       prevOp, onlyAdds, left, perf>>
        /\ UNCHANGED <<qr, page, captures, ev, shown, router, reply, eh,
                       popup, write>>

\* the read of an insertion is served: get caches the array it read and
\* returns it, the insertion unshifts its entry into that array and calls
\* chrome.storage.local.set with it
insertRead ==
    /\ ins.requests # <<>>
    /\ Head(ins.requests).kind = "get"
    /\ LET c == Head(ins.requests).call
           call == ins.calls[c]
           entry == [content |-> call.content, timestamp |-> now + 1,
                     id |-> nextId, type |-> "undefined"]
           created == IF call.entry = <<>> THEN <<entry>> ELSE call.entry
           history == Unshift(created, store.qrHistory)
           object == Len(ins.heap) + 1
       IN
       /\ ins' = [ins EXCEPT
                     !.heap = Append(@, history),
                     !.cached = object,
                     !.calls[c] = [call EXCEPT !.entry = created,
                                               !.stage = "writing",
                                               !.history = object],
                     !.requests = Append(Tail(@),
                                         [call |-> c, kind |-> "set",
                                          data |-> history])]
       /\ cache' = CacheAfterSet(cache, "qrHistory", history)
       /\ now' = now + (1 - Len(call.entry))
       /\ nextId' = nextId + (1 - Len(call.entry))
    /\ UNCHANGED <<store, emitted, added>>
    /\ UNCHANGED <<currentSettings, initialised, pending, hm, op, pre,
                   prevOp, onlyAdds, left, perf>>
    /\ UNCHANGED <<qr, page, captures, ev, shown, router, reply, eh, popup,
                   write>>

\* the write of an insertion is served: the store holds the array as it was
\* when chrome.storage.local.set was called, set caches the array object of
\* the insertion, add notifies its listeners
insertWritten ==
    /\ ins.requests # <<>>
    /\ Head(ins.requests).kind = "set"
    /\ LET c == Head(ins.requests).call
           call == ins.calls[c]
       IN
       /\ store' = StoreAfterSet(store, "qrHistory", Head(ins.requests).data)
       /\ cache' = CacheAfterSet(cache, "qrHistory", ins.heap[call.history])
       /\ ins' = [ins EXCEPT !.cached = call.history,
                             !.calls[c].stage = "done",
                             !.requests = Tail(@)]
       /\ emitted' = IF call.kind = "add"
                     THEN <<Event("historyAdded", call.entry[1])>>
                     ELSE <<>>
       /\ added' = call.entry \o added
    /\ UNCHANGED <<now, nextId>>
    /\ UNCHANGED <<currentSettings, initialised, pending, hm, op, pre,
                   prevOp, onlyAdds, left, perf>>
    /\ UNCHANGED <<qr, page, captures, ev, shown, router, reply, eh, popup,
                   write>>

-----------------------------------------------------------------------------
(* Specifications *)

\* the history after n calls of add, at times 1..n
InitialHistory(n) ==
    [i \in 1..n |->
        LET content == IF i % 2 = 0 THEN "hello world"
                       ELSE "https://example.com"
        IN [content |-> content, timestamp |-> n + 1 - i, id |-> n + 1 - i,
            type |-> detectContentType(content)]]

\* the managers right after construction, over a store that holds the
\* default settings written at installation and a history of n entries
ManagersInit(lengths, budget) ==
    /\ \E n \in lengths :
        /\ store = [qrSettings |-> DEFAULT_SETTINGS,
                    qrHistory |-> InitialHistory(n)]
        /\ now = n
        /\ nextId = n + 1
        /\ added = InitialHistory(n)
    /\ onlyAdds = TRUE
    /\ cache = EmptyCache
    /\ currentSettings = EmptySettings
    /\ initialised = FALSE
    /\ pending = None
    /\ hm = [searchQuery |-> "", filterType |-> "all", sortBy |-> "timestamp",
             sortOrder |-> "desc"]
    /\ op = NoOp
    /\ pre = [store |-> store, cache |-> cache,
              currentSettings |-> currentSettings, initialised |-> initialised]
    /\ prevOp = NoOp
    /\ emitted = <<>>
    /\ left = budget
    /\ PopupInit

InitWith(lengths, budget) ==
    /\ ManagersInit(lengths, budget)
    /\ RecognizerInit(TRUE, TRUE)
    /\ RouterInit(0)

\* the configuration manager over an empty history or one of three entries
NextConfig ==
    \/ ConfigInit
    \/ loadSettings
    \/ saveSettings
    \/ setSetting
    \/ saveSettingsWritten
    \/ resetSettings
    \/ optionsSaveSettings
    \/ cacheExpire

SpecConfig ==
    InitWith({0, 3}, MaxOps) /\ [][NextConfig]_vars

NextHistory ==
    \/ add
    \/ saveToHistory
    \/ delete
    \/ deleteByIndex
    \/ clear
    \/ import
    \/ getAll
    \/ setSort
    \/ cacheExpire

SpecHistory ==
    InitWith({0, 3}, MaxHistoryOps) /\ [][NextHistory]_vars

\* browsing and exchanging a history of three entries
NextBrowse ==
    \/ search
    \/ export
    \/ import
    \/ clear
    \/ getAll
    \/ setSort
    \/ cacheExpire

SpecBrowse ==
    InitWith({3}, MaxBrowseOps) /\ [][NextBrowse]_vars

\* a history one entry short of the limit, or at the limit
NextCap ==
    \/ add
    \/ saveToHistory
    \/ import
    \/ delete
    \/ deleteByIndex
    \/ clear
    \/ cacheExpire

SpecCap ==
    InitWith({HISTORY_LIMIT - 1, HISTORY_LIMIT}, MaxHistoryOps)
        /\ [][NextCap]_vars

NextRecognizer ==
    \/ toggleSelectionMode
    \/ selectionMessage
    \/ handleMouseDown
    \/ handleMouseMove
    \/ handleMouseUp
    \/ recognizeQr
    \/ captureDecoded
    \/ captureSaved
    \/ scriptLoaded
    \/ scriptFailed
    \/ cacheExpire

\* the content script on a page where each library is defined or not
SpecRecognizer ==
    /\ ManagersInit({3}, MaxPageOps)
    /\ \E libs \in {<<TRUE, TRUE>>, <<FALSE, TRUE>>, <<TRUE, FALSE>>} :
           RecognizerInit(libs[1], libs[2])
    /\ RouterInit(0)
    /\ [][NextRecognizer]_vars

NextRouter ==
    \/ routeMessage
    \/ routeCommand
    \/ registerMessageHandler
    \/ unregisterMessageHandler
    \/ registerCommandHandler
    \/ unregisterCommandHandler
    \/ reportError
    \/ onError
    \/ offError

\* the background service, its error handler having handled no error yet
\* or one error fewer than its history holds
SpecRouter ==
    /\ ManagersInit({0}, MaxRouterOps)
    /\ RecognizerInit(TRUE, TRUE)
    /\ \E errors \in {0, 49} : RouterInit(errors)
    /\ [][NextRouter]_vars

\* the popup over a stored history of three entries; its input events are
\* counted, the retries of its write end by themselves
NextPopup ==
    \/ input
    \/ debounceTimer
    \/ set
    \/ setCallback
    \/ retryTimer

SpecPopup ==
    InitWith({3}, 0) /\ [][NextPopup]_vars

\* one storage call and the performance logging it starts; every callback
\* that is ready runs
NextPerf ==
    \/ storageCall
    \/ storageCallDone
    \/ logPerformanceRead
    \/ logPerformanceSet
    \/ logPerformanceWritten
    \/ statsExpire

SpecPerf ==
    InitWith({0}, 0) /\ [][NextPerf]_vars /\ WF_vars(NextPerf)

\* insertions into a stored history of no or two entries, the timers of the
\* cache running
NextInsert ==
    \/ insertCall
    \/ insertRead
    \/ insertWritten
    \/ cacheExpire

SpecInsert ==
    InitWith({0, 2}, 0) /\ [][NextInsert]_vars

\* the history list of the popup over a stored history of three entries
NextList ==
    \/ handleHistorySearch
    \/ handleHistoryDelete
    \/ cacheExpire

SpecList ==
    InitWith({3}, MaxListOps) /\ [][NextList]_vars

-----------------------------------------------------------------------------
(* Properties of the configuration manager *)


\* the value under key k passes the rule for k
KeyValid(k, v) == validateSettings([DEFAULT_SETTINGS EXCEPT ![k] = v])


\* C1: saveSettings of a settings object that breaks a validation rule fails
\* with an error of type VALIDATION_ERROR, and the settings record persisted
\* before the call is still persisted after it and after error recovery.
C1_InvalidSaveKeepsPersisted ==
    (/\ op.name = "saveSettings"
     /\ DOMAIN op.arg = SettingsKeys
     /\ ~validateSettings(op.arg)) =>
        /\ ~op.ok
        /\ op.err.type = VALIDATION_ERROR
        /\ store.qrSettings = pre.store.qrSettings

C7_PartialSaveAccepted ==
    (/\ op.name = "saveSettings"
     /\ pre.initialised
     /\ validateSettings(pre.currentSettings)
     /\ DOMAIN op.arg /= SettingsKeys
     /\ \A k \in DOMAIN op.arg : KeyValid(k, op.arg[k])) =>
        /\ op.err.causeType /= VALIDATION_ERROR
        /\ op.ok => store.qrSettings = Spread(pre.currentSettings, op.arg)

\* C8: saveSettings updates the in-memory settings and notifies
\* 'settingsSaved' only after the write succeeded: while the write is in
\* flight, and after a failed validation or write, the in-memory settings are
\* those before the call and nothing was notified; after a success the
\* in-memory settings are the persisted ones and one notification was sent.
C8_UpdateAfterWrite ==
    /\ pending /= None =>
        /\ currentSettings = pending.pre.currentSettings
        /\ emitted = <<>>
    /\ (pending = None /\ op.name = "saveSettings" /\ ~op.ok) =>
        /\ currentSettings = pre.currentSettings
        /\ emitted = <<>>
    /\ (pending = None /\ op.name = "saveSettings" /\ op.ok) =>
        /\ currentSettings = op.result
        /\ store.qrSettings = op.result
        /\ emitted = <<Event("settingsSaved", op.result)>>

\* C8 witness: a save whose write failed, called with settings that differ
\* from the current ones.
C8_Witness ==
    /\ pending = None
    /\ op.name = "saveSettings" /\ ~op.ok
    /\ op.err.causeCode = 2007
    /\ op.arg /= pre.currentSettings

\* C9: loadSettings returns the persisted settings with a default for each
\* absent key only; when a persisted key is present but invalid it fails,
\* because validation failed, and returns no settings.
C9_LoadMergesOrFails ==
    op.name = "loadSettings" =>
        LET seen == GetValue(pre.cache, pre.store, "qrSettings") IN
        /\ op.ok =>
            op.result = [k \in SettingsKeys |->
                            IF k \in DOMAIN seen THEN seen[k]
                            ELSE DEFAULT_SETTINGS[k]]
        /\ (\E k \in DOMAIN seen : ~KeyValid(k, seen[k])) =>
            /\ ~op.ok
            /\ op.result = <<>>
            /\ op.err.causeCode /= 2001 => op.err.causeType = VALIDATION_ERROR

\* C9 witness: a load of a persisted record with an invalid size, read from
\* the store, that failed on validation.
C9_Witness ==
    /\ op.name = "loadSettings" /\ ~op.ok
    /\ op.err.causeType = VALIDATION_ERROR
    /\ ~pre.cache.qrSettings.has
    /\ pre.store.qrSettings.size = 50

\* C10: once initialised, the in-memory settings pass validateSettings, and so
\* does the record a successful save or reset persisted.
C10_SettingsAlwaysValid ==
    /\ initialised => validateSettings(currentSettings)
    /\ (pending = None /\ op.name \in {"saveSettings", "resetSettings"} /\ op.ok)
        => validateSettings(store.qrSettings)

-----------------------------------------------------------------------------
(* Properties of the history manager *)

\* the 0-based positions of the array the call read
InRange(index, list) == index >= 0 /\ index < Len(list)

\* C2: delete with an id that no stored entry has, and deleteByIndex with an
\* index outside [0, length), having read the history, fail with an error of
\* type VALIDATION_ERROR; they never return normally.
C2_MissingTargetIsValidationError ==
    /\ (/\ op.name = "delete"
        /\ findIndex(pre.store.qrHistory, op.arg) = 0
        /\ findIndex(History(pre), op.arg) = 0
        /\ op.err.causeCode /= 2001) =>
            /\ ~op.ok
            /\ op.err.type = VALIDATION_ERROR
    /\ (/\ op.name = "deleteByIndex"
        /\ ~InRange(op.arg, pre.store.qrHistory)
        /\ ~InRange(op.arg, History(pre))
        /\ op.err.causeCode /= 2001) =>
            /\ ~op.ok
            /\ op.err.type = VALIDATION_ERROR

\* C3: a delete that returned, called with the id of a stored entry, leaves
\* as stored history the history stored before with that one entry removed:
\* the other entries are all there, in the order they had.
C3_DeleteRemovesExactlyOne ==
    (/\ op.name = "delete" /\ op.ok
     /\ findIndex(pre.store.qrHistory, op.arg) > 0) =>
        store.qrHistory =
            Splice(pre.store.qrHistory, findIndex(pre.store.qrHistory, op.arg))

\* C4: whatever add, import, saveToHistory, delete, deleteByIndex and clear
\* were called, the persisted history holds at most HISTORY_LIMIT entries.
C4_HistoryCapped == Len(store.qrHistory) <= HISTORY_LIMIT

\* C4 witness: an insertion into a history that had no room left for the
\* entries inserted returned, and the stored history is full.
C4_Witness ==
    /\ op.name \in {"add", "import", "saveToHistory"} /\ op.ok
    /\ Len(pre.store.qrHistory) + (IF op.name = "import" THEN Len(op.arg) ELSE 1)
           > HISTORY_LIMIT
    /\ Len(store.qrHistory) = HISTORY_LIMIT

\* C5: when only add and saveToHistory were called, one after the other, and
\* more entries were added than the limit, the stored history is the
\* HISTORY_LIMIT entries added last, newest first.
C5_KeepsMostRecent ==
    (onlyAdds /\ Len(added) > HISTORY_LIMIT) =>
        store.qrHistory = SubSeq(added, 1, HISTORY_LIMIT)

-----------------------------------------------------------------------------
(* Properties of the selection controller and the capture pipeline *)

\* the state of the selection controller
Controller(q) ==
    IF ~q.isSelectionMode THEN "Idle"
    ELSE IF q.selectionBox.present THEN "Dragging" ELSE "Armed"

\* C11: a toggle command received while Dragging is ignored: selection mode,
\* the overlay and the anchor are what they were, and no capture was started.
C11_ToggleWhileDraggingIgnored ==
    (ev.name = "toggle" /\ Controller(ev.pre.qr) = "Dragging") =>
        /\ qr.isSelectionMode = ev.pre.qr.isSelectionMode
        /\ qr.selectionBox = ev.pre.qr.selectionBox
        /\ qr.startX = ev.pre.qr.startX
        /\ qr.startY = ev.pre.qr.startY
        /\ captures.started = ev.pre.started

\* C12: at most one recognizeFromRect call is in flight at any time.
C12_OneCaptureInFlight == Cardinality(captures.running) <= 1

\* C13: when a capture started by a pointer-up completes, with a result,
\* without one or with a failure, the controller is Idle.
C13_IdleWhenCaptureCompletes ==
    (ev.name = "captureDone" /\ ev.from = "pointer") =>
        Controller(qr) = "Idle"

\* C14: at most one listener per pointer event type is attached, and while
\* the controller is Idle none is attached and the cursor is the default one.
C14_ListenersDetached ==
    \A t \in DOMAIN page.listeners :
        /\ Cardinality(page.listeners[t]) <= 1
        /\ Controller(qr) = "Idle" =>
               page.listeners[t] = {} /\ page.cursor = "default"

\* C15: a toggle command received while armed, before any pointer-down,
\* leaves the controller Idle, starts no capture, and its response reports
\* isSelectionMode = false.
C15_SecondToggleCancels ==
    (ev.name = "toggle" /\ Controller(ev.pre.qr) = "Armed") =>
        /\ Controller(qr) = "Idle"
        /\ captures.started = ev.pre.started
        /\ Cardinality(captures.running) = ev.pre.inFlight
        /\ ev.response = [status |-> "ok", isSelectionMode |-> FALSE]

\* C15 witness: the toggle that armed the controller was followed by a
\* second toggle.
C15_Witness ==
    /\ ev.name = "toggle" /\ Controller(ev.pre.qr) = "Armed"
    /\ page.bound = 6
    /\ Controller(qr) = "Idle"

\* C16: at most one load of the capture library is ever started.
C16_LibraryLoadedOnce == page.loads <= 1

\* C17: a pointer-up that ends a drag while the capture library is not
\* available or the decode library is absent makes that attempt fail: one
\* error notification is shown, the persisted history is what it was, no
\* capture is left in flight by it and the controller is Idle; and a toggle
\* received while Idle arms the controller: crosshair cursor, listeners
\* attached, no overlay.
C17_MissingLibraryFailsAttempt ==
    /\ (/\ ev.name = "mouseup" /\ Controller(ev.pre.qr) = "Dragging"
        /\ ~ev.pre.page.html2canvas \/ ~ev.pre.page.jsQR) =>
            /\ ev.outcome = "failed"
            /\ Len(shown) = 1 /\ shown[1].type = "error"
            /\ store.qrHistory = ev.pre.history
            /\ Cardinality(captures.running) = ev.pre.inFlight
            /\ Controller(qr) = "Idle"
    /\ (ev.name = "toggle" /\ Controller(ev.pre.qr) = "Idle") =>
            /\ Controller(qr) = "Armed"
            /\ page.cursor = "crosshair"
            /\ \A t \in DOMAIN page.listeners : page.listeners[t] /= {}

\* C17 witness: a toggle armed the controller after the one attempt made so
\* far, started by a pointer-up, had failed.
C17_Witness ==
    /\ ev.name = "toggle" /\ Controller(qr) = "Armed"
    /\ captures.started = 1 /\ captures.failed = 1
    /\ captures.running = {}
    /\ page.bound = 9

\* C18: when a capture ends with a decoded result, the newest entry of the
\* persisted history holds the whole decoded content, and one success
\* notification is shown whose preview is the first 50 characters of the
\* content, followed by an ellipsis exactly when the content is longer.
C18_ResultPersistedAndPreviewed ==
    (ev.name = "captureDone" /\ ev.outcome = "success") =>
        LET cs == Chars(ev.data) IN
        /\ Len(store.qrHistory) > 0
        /\ store.qrHistory[1].content = ev.data
        /\ Len(shown) = 1
        /\ shown[1].type = "success"
        /\ shown[1].detail =
               IF Len(cs) > 50
               THEN [i \in 1..53 |-> IF i <= 50 THEN cs[i] ELSE "."]
               ELSE cs

\* C18 witness: a capture ended with a decoded content of 51 characters.
C18_Witness ==
    /\ ev.name = "captureDone" /\ ev.outcome = "success"
    /\ Len(Chars(ev.data)) = 51
    /\ Len(shown[1].detail) = 53

\* C19: a capture that ends without a decoded result shows the 'not
\* recognized' notification and leaves the persisted history as it was when
\* the capture resumed after rasterizing.
C19_NoResultKeepsHistory ==
    (ev.name = "captureDone" /\ ev.outcome = "noResult") =>
        /\ Len(shown) = 1 /\ shown[1].key = "notRecognized"
        /\ store.qrHistory = ev.pre.history

\* C31: a TOGGLE_SELECTION_MODE, START_SELECTION or END_SELECTION message
\* is answered with a response that carries a status and its handling does
\* not throw; handling RECOGNIZE_QR does not throw, and the response sent
\* when its capture ends carries a status.
C31_ControllerMessagesAnswered ==
    /\ ev.name \in {"toggle", "START_SELECTION", "END_SELECTION"} =>
           /\ ev.outcome /= "threw"
           /\ "status" \in DOMAIN ev.response
           /\ ev.response.status /= "none"
    /\ ev.name = "recognizeQr" => ev.outcome /= "threw"
    /\ (ev.name \in {"recognizeQr", "captureDone"} /\ ev.from = "message"
            /\ ev.outcome /= "started") =>
           /\ "status" \in DOMAIN ev.response
           /\ ev.response.status /= "none"

\* C40: while dragging, the overlay has width and height >= 0, and after a
\* pointer-move it is left = min(start, current), top likewise, width =
\* |current - start|, height likewise; a pointer-up that follows a
\* pointer-down with no pointer-move in between submits an overlay anchored
\* at the pointer-down position with width 0 and height 0.
C40_OverlayRectangle ==
    /\ [](/\ Controller(qr) = "Dragging" =>
               qr.selectionBox.width >= 0 /\ qr.selectionBox.height >= 0
          /\ (ev.name = "mousemove" /\ ev.outcome = "none") =>
               LET lo(a, b) == IF a <= b THEN a ELSE b
                   dist(a, b) == IF a <= b THEN b - a ELSE a - b
               IN qr.selectionBox =
                      Box(lo(qr.startX, qr.currentX),
                          lo(qr.startY, qr.currentY),
                          dist(qr.startX, qr.currentX),
                          dist(qr.startY, qr.currentY)))
    /\ [][(/\ ev.name = "mousedown"
           /\ ev.outcome = "none"
           /\ ev'.name = "mouseup"
           /\ ev'.outcome \in {"started", "failed"}) =>
              qr.selectionBox = Box(qr.startX, qr.startY, 0, 0)]_vars

-----------------------------------------------------------------------------
(* Properties of the message router *)

\* C20: a message whose action has no registered handler is answered with
\* status 'error', error 'Unknown action' and the action name; a command
\* with no registered handler runs nothing; the listener does not throw, so
\* messages dispatched later are answered the same way.
C20_UnknownActionAnswered ==
    /\ (reply.kind = "message" /\ ~reply.registered) =>
        /\ reply.response = [status |-> "error", error |-> "Unknown action",
                             action |-> reply.name]
        /\ ~reply.threw
    /\ (reply.kind = "command" /\ ~reply.registered) =>
        /\ ~reply.ran
        /\ ~reply.threw

\* C20 witness: the third event dispatched is a message with an unknown
\* action.
C20_Witness ==
    /\ reply.kind = "message" /\ ~reply.registered
    /\ reply.count = 3

\* C21: when the handler registered for a message fails (it throws, its
\* promise rejects, or its asynchronous work fails), the response the caller
\* receives has status 'error'.
C21_FailedHandlerAnswersError ==
    (reply.kind = "message" /\ reply.registered /\ reply.failed) =>
        reply.response.status = "error"

\* C22: for a message whose handler is an async function, the response the
\* caller receives is the value the handler's asynchronous work produced.
C22_ResponseIsHandlerResult ==
    (reply.kind = "message" /\ reply.registered /\ reply.handler = "async") =>
        reply.response = reply.value

C25_CaughtErrorsRecorded ==
    (reply.kind \in {"message", "command"} /\ reply.caught) =>
        eh.handled > reply.pre.handled

-----------------------------------------------------------------------------
(* Properties of history entries, search and exchange *)

\* C26: the entry created by an add or saveToHistory call that returned
\* carries a type among url, email, phone and text, the one derived from its
\* content.
C26_EntryCarriesType ==
    (op.name \in {"add", "saveToHistory"} /\ op.ok) =>
        /\ op.result.type \in {"url", "email", "phone", "text"}
        /\ op.result.type = detectContentType(op.result.content)

\* C27: a search that returned yields exactly the stored entries whose
\* content or whose type contains the query, letter case ignored.
C27_SearchMatchesContentOrType ==
    (op.name = "search" /\ op.ok) =>
        LET stored == pre.store.qrHistory
            query == toLowerCase(op.arg)
            Matches(item) ==
                \/ Includes(item.content, query)
                \/ item.type /= "undefined" /\ Includes(item.type, query)
        IN {op.result[i] : i \in DOMAIN op.result}
               = {stored[i] : i \in {k \in DOMAIN stored : Matches(stored[k])}}

\* C28: the items of an exported text are the history getAll returned for
\* the export; and an import into an empty store that returned leaves a
\* stored history whose contents are those of the imported items, in the
\* same order.
C28_ExportImportRoundTrip ==
    /\ (op.name = "export" /\ op.ok) =>
        /\ op.result.totalItems = Len(op.result.items)
        /\ \A i \in DOMAIN op.result.items :
               \E k \in DOMAIN pre.store.qrHistory :
                   pre.store.qrHistory[k] = op.result.items[i]
    /\ (/\ op.name = "import" /\ op.ok
        /\ pre.store.qrHistory = <<>> /\ History(pre) = <<>>) =>
        [i \in DOMAIN store.qrHistory |-> store.qrHistory[i].content]
            = [i \in DOMAIN op.arg |-> op.arg[i].content]

\* C28 witness: the history of three entries was exported, the store
\* cleared, and the exported text imported.
C28_Witness ==
    /\ op.name = "import" /\ op.ok
    /\ prevOp.name = "clear" /\ prevOp.ok
    /\ pre.store.qrHistory = <<>>
    /\ Len(store.qrHistory) = 3
    /\ store.qrHistory[1].content = "https://example.com"

\* C29: no two entries of the stored history have the same id.
C29_IdsUnique ==
    \A i, j \in DOMAIN store.qrHistory :
        i /= j => store.qrHistory[i].id /= store.qrHistory[j].id

\* C33: a delete of an id that is not stored, a deleteByIndex out of range
\* and an add of empty content, which fail validation, leave the persisted
\* history and settings as they were before the call, recovery included.
C33_FailedValidationKeepsStore ==
    (/\ op.name \in {"delete", "deleteByIndex", "add"}
     /\ ~op.ok
     /\ op.err.causeType = VALIDATION_ERROR) =>
        store = pre.store

\* C34: an entry the cache holds for a key is the value persisted for it.
C34_CacheCoherent ==
    \A key \in DOMAIN cache : cache[key].has => cache[key].val = store[key]

\* C35: a getAll that returned left the persisted history as it was, and an
\* add or saveToHistory that returns right after it writes back the history
\* stored before with the new entry in front.
C35_GetAllReadOnly ==
    /\ (op.name = "getAll" /\ op.ok) => store.qrHistory = pre.store.qrHistory
    /\ (/\ op.name \in {"add", "saveToHistory"} /\ op.ok
        /\ prevOp.name = "getAll" /\ prevOp.ok) =>
           store.qrHistory = Unshift(<<op.result>>, pre.store.qrHistory)

\* C36: with filter 'all', whatever was searched before, a getAll that
\* returned yields every stored entry and an export that returned holds
\* every stored entry.
C36_SearchLeavesLaterResults ==
    (/\ op.name \in {"getAll", "export"} /\ op.ok
     /\ hm.filterType = "all") =>
        LET returned == IF op.name = "export" THEN importFromJson(op.result)
                        ELSE op.result
        IN \A i \in DOMAIN pre.store.qrHistory :
               \E j \in DOMAIN returned : returned[j] = pre.store.qrHistory[i]

\* C37: a press of the delete button of the item rendered at position i
\* that ended normally removed the entry that was displayed there, and
\* only it, from the stored history.
C37_DeleteRemovesDisplayedEntry ==
    (op.name = "handleHistoryDelete" /\ op.ok) =>
        LET Others(item) == item.id /= op.arg.shown.id IN
        /\ op.result = op.arg.shown
        /\ store.qrHistory = SelectSeq(pre.store.qrHistory, Others)
        /\ Len(store.qrHistory) = Len(pre.store.qrHistory) - 1

\* C32: after a single set or get on a store that never fails the storage
\* manager eventually stays quiescent: no storage request is in flight and
\* no logPerformance call is in progress any more.
C32_EventuallyQuiescent ==
    <>[](/\ perf.call \in {"none", "done"}
         /\ perf.reading = 0 /\ perf.got = 0 /\ perf.writing = 0)

\* C38: when an insertion started while another was in progress and both
\* writes have succeeded, the stored history contains the entries of both.
C38_OverlappingInsertionsStored ==
    \A j \in DOMAIN ins.calls : \A i \in ins.calls[j].during :
        (ins.calls[i].stage = "done" /\ ins.calls[j].stage = "done")
        => \A e \in {ins.calls[i].entry[1], ins.calls[j].entry[1]} :
               \E k \in DOMAIN store.qrHistory : store.qrHistory[k] = e

-----------------------------------------------------------------------------
(* Properties of the popup's timers *)

\* C23: a storage write that keeps failing is attempted at most 3 times in
\* total, the delay before each retry is greater than the delay before the
\* previous one, and once the write has failed it carries a storage error
\* and is not attempted again
C23_WriteAttemptedThreeTimes ==
    /\ write.attempts <= 3
    /\ \A i \in 2..Len(write.delays) : write.delays[i] > write.delays[i - 1]
    /\ write.status = "rejected" =>
           /\ write.error.type = STORAGE_ERROR
           /\ write.attempts = Len(write.delays) + 1

\* C30: after an input event on a field, the debounced handler of the field
\* has not run before the delay has elapsed since the last event, and once
\* more time than that has passed it has run exactly once, at that moment,
\* with the arguments of the last event
C30_DebounceTrailingEdge ==
    \A field \in DOMAIN popup.last :
        LET last == popup.last[field] IN
        last.at >= 0 =>
            /\ popup.clock < last.at + debounceDelay => last.runs = 0
            /\ popup.clock > last.at + debounceDelay =>
                   /\ last.runs = 1
                   /\ last.ranAt = last.at + debounceDelay
                   /\ last.ranArgs = last.args

\* C39: a pending debounced invocation of the handler of one field is
\* neither cancelled nor replaced by a step that is not an input event on
\* that field or the invocation itself: after the step it is still pending,
\* with the same arguments, due at the same time.
C39_DebouncedHandlersIndependent ==
    [][\A key \in DOMAIN popup.debounceTimers :
           LET timer == popup.debounceTimers[key] IN
           popup'.last[timer.field] = popup.last[timer.field] =>
               \E k \in DOMAIN popup'.debounceTimers :
                   popup'.debounceTimers[k] = timer]_vars

====
